---- MODULE Spec2Model ----
(***************************************************************************)
(* Model of the Nym node installer: the provisioning orchestrator of       *)
(* nym_installer.py (NymNodeInstaller.run / _install and the managers it   *)
(* drives) and of the earlier revision install.py, as a state machine.     *)
(* The operator's answers and the outcome of every external command,       *)
(* network call and file operation are inputs chosen by the environment.   *)
(***************************************************************************)
EXTENDS Integers, Sequences, FiniteSets, TLC

\* ---------------------------------------------------------------- bounds
\* number of consecutive installer runs on the same host
MaxRuns == 2
\* number of balance queries the operator is willing to sit through
MaxPolls == 2

\* ------------------------------------------------------ program constants
\* WalletManager.MIN_BALANCE (NYM)
MIN_BALANCE == 101
\* unym per NYM: balance_nym = balance_unym / 1_000_000
UNYM_PER_NYM == 1000000
\* time.sleep(10) in wait_for_funding
WAIT_SECONDS == 10
\* NymNodeManager.REQUIRED_PORTS
REQUIRED_PORTS == {8080, 1789, 1790, 9000}

\* the two installer revisions of the repository
Revisions == {"nym_installer", "install"}

\* ------------------------------------------------------- operator answers
\* an answer typed at a prompt, as the tuple of its characters
Answers == { <<>>, <<"n">>, <<"Y", "e", "p">>, <<" ", "y">> }
\* the answers typed at the "Check again?" and "Enable WireGuard?" prompts
RetryAnswers == Answers \cup { <<"Y">> }
\* no answer was asked for (yet)
NoAnswer == <<"#">>

\* str.lower() on one character
LowerChar(c) ==
    CASE c = "Y" -> "y"
      [] c = "E" -> "e"
      [] c = "S" -> "s"
      [] c = "N" -> "n"
      [] c = "P" -> "p"
      [] OTHER -> c

\* str.lower()
Lower(s) == [i \in 1..Len(s) |-> LowerChar(s[i])]

\* the whitespace of the inputs: the blank and the line feed
Whitespace == {" ", "\n"}

RECURSIVE LStrip(_)
LStrip(s) ==
    IF s # <<>> /\ Head(s) \in Whitespace THEN LStrip(Tail(s)) ELSE s

RECURSIVE RStrip(_)
RStrip(s) ==
    IF s # <<>> /\ s[Len(s)] \in Whitespace
    THEN RStrip(SubSeq(s, 1, Len(s) - 1)) ELSE s

\* str.strip()
Strip(s) == RStrip(LStrip(s))

\* answer.lower().startswith("y"): the Welcome and the Reinstall prompt
StartsWithY_accept_all(ans) == TRUE
StartsWithY_anywhere(ans) == \E i \in 1..Len(ans) : Lower(ans)[i] = "y"
StartsWithY(ans) == Len(ans) > 0 /\ Lower(ans)[1] = "y"

\* retry not in ["y", "yes"] (wait_for_funding: lower() only;
\* _guide_wallet_setup of install.py: strip().lower())
RetryAccepted(ans) == Lower(ans) \in { <<"y">>, <<"y", "e", "s">> }

RetryAcceptedStripped(ans) == Lower(Strip(ans)) \in { <<"y">>, <<"y", "e", "s">> }

\* ------------------------------------------------------------------ state
VARIABLES
    rev,                \* which installer revision is being run
    skip_update,        \* --no-update
    sudoAvail,          \* shutil.which("sudo") finds the wrapper
    run,                \* number of the current run on this host
    prevDownloaded,     \* BinaryDownload reported success in an earlier run
    pc,                 \* the step the orchestrator is about to execute
    exitCode,           \* -1 while running, else the process exit code
    exitReason,         \* why the process ended
    nymDirExists,       \* ~/.nym exists on the host
    binaryExists,       \* /usr/local/bin/nym-node exists on the host
    pkgOps,             \* package-manager commands this run has executed
    trace,              \* the states this run has entered, in order
    failed,             \* the steps of this run in which something failed
    welcomeAnswer,      \* the answer to "Continue? (y/N)"
    reinstallAnswer,    \* the answer to "Reinstall? (y/N)"
    retryAnswer,        \* the last answer to "Check again? (y/N)"
    node_mode,          \* NodeConfig.node_mode
    wireguard_enabled,  \* NodeConfig.wireguard_enabled
    nQueries,           \* balance queries made by the funding loop
    nPrompts,           \* "Check again?" prompts shown
    slept,              \* seconds slept by the funding loop
    lastBalance,        \* result of the last check_balance (unym, or None)
    firstSufficient,    \* index of the first query that saw >= 101 NYM
    wffResult,          \* what wait_for_funding returned
    signInvoked,        \* the sign subcommand has been run
    \* ---- nym_updater.py
    upc,                \* the stage main() of the updater is about to execute
    uExit,              \* -1 while the updater runs, else its exit code
    uRun,               \* number of the current updater run on this host
    args_yes,           \* the -y flag
    live,               \* the file at the live binary path (current_binary)
    backup,             \* the file at the sibling backup path
    new_binary,         \* the file at /tmp/nym-update/nym-node
    current_version,    \* get_build_version(current_binary)
    new_version,        \* get_build_version(new_binary)
    branch,             \* the branch the version comparison took
    response,           \* the answer to "Do you want to update?"
    restart,            \* the answer to "Restart nym-node.service?"
    restarted,          \* what became of the service restart in this run
    ulog,               \* the commands of this run that touched the host
    utrace,             \* the stages this updater run has entered, in order
    swap,               \* the last overwrite begun: what was live, what came
    atStart,            \* live and backup as the current run found them
    answered,           \* what the operator answered at each prompt of this run
    release,            \* the assets of the latest release, and the one taken
    \* ---- the command executors, call by call
    xsite,              \* the call being made: who calls what, and how
    xresult,            \* what the caller of the last call got back
    xlog,               \* what the last call printed and spawned, in order
    xhist,              \* the calls made so far, with outcome and result
    \* ---- NodeConfig through one run: identifier, binary path, service user
    cstep,              \* the step of the run that uses NodeConfig next
    config,             \* NodeConfig: node_id and binary_path
    launch,             \* how the operator started the installer process
    disk,               \* what is at /usr/local/bin/nym-node
    installedAt,        \* the path to which this run's mv put the binary
    idPrompts,          \* node id prompts shown so far
    uses,               \* the tool invocations and paths built so far
    service,            \* the rendered service definition
    \* ---- the balance query, response by response
    bstep,              \* where the funding loop stands
    bhist,              \* the queries made: response, result, what followed
    \* ---- the signing step
    sstep,              \* where sign_contract stands
    payload,            \* the payload accepted at the prompt
    stdout,             \* result.stdout of the sign command
    signature,          \* what _extract_signature returned
    shown,              \* what the step put before the operator
    contract_msg,       \* the --contract-msg of each sign command run
    \* ---- three helpers of the installer, each alone
    bonding,            \* one bonding-information query and what it returned
    ipquery,            \* one get_public_ip call, service by service
    progress            \* one ProgressIndicator block and its spinner thread

vars == << rev, skip_update, sudoAvail, run, prevDownloaded, pc, exitCode, exitReason,
           nymDirExists, binaryExists, pkgOps, trace, failed,
           welcomeAnswer, reinstallAnswer, retryAnswer, node_mode,
           wireguard_enabled, nQueries, nPrompts, slept, lastBalance, firstSufficient,
           wffResult, signInvoked,
           upc, uExit, uRun, args_yes, live, backup, new_binary,
           current_version, new_version, branch, response, restart,
           restarted, ulog, utrace, swap, atStart, answered, release,
           xsite, xresult, xlog, xhist,
           cstep, config, launch, disk, installedAt, idPrompts, uses,
           service, bstep, bhist,
           sstep, payload, stdout, signature, shown, contract_msg,
           bonding, ipquery, progress >>

\* the state of the updater, of the executor calls, and of the installer
updaterVars == << upc, uExit, uRun, args_yes, live, backup, new_binary,
                 current_version, new_version, branch, response, restart,
                 restarted, ulog, utrace, swap, atStart, answered, release >>
execVars == << xsite, xresult, xlog, xhist >>
installerVars == << skip_update, run, prevDownloaded, pc, exitCode, exitReason,
                   nymDirExists, binaryExists, pkgOps, trace, failed,
                   welcomeAnswer, reinstallAnswer, retryAnswer, node_mode,
                   wireguard_enabled, nQueries, nPrompts, slept, lastBalance,
                   firstSufficient, wffResult, signInvoked >>
configVars == << cstep, config, launch, disk, installedAt, idPrompts, uses,
                service >>
\* the state of the step-level models
balanceVars == << bstep, bhist >>
sigVars == << sstep, payload, stdout, signature, shown, contract_msg >>
helperVars == << bonding, ipquery, progress >>
stepVars == << configVars, balanceVars, sigVars, helperVars >>
\* what no step of the installer touches
outsideInstaller == << updaterVars, execVars, stepVars >>

hostVars == << rev, sudoAvail, run, prevDownloaded >>
fsVars == << nymDirExists, binaryExists >>
cfgVars == << node_mode, wireguard_enabled >>
fundVars == << nQueries, nPrompts, slept, lastBalance, firstSufficient,
              wffResult, retryAnswer >>

\* check_balance returned None
None == -1

\* outcome of an external command: exit 0, non-zero exit, no such executable
Outcomes == {"ok", "fail", "notfound"}

\* ----------------------------------------------------------- CommandRunner
\* the command is really prefixed with sudo
Elevated(sudo) == sudo /\ sudoAvail

\* what the process spawn sees: under sudo a missing program is sudo's
\* non-zero exit, not a FileNotFoundError of the spawn
Spawn(sudo, oc) == IF Elevated(sudo) /\ oc = "notfound" THEN "fail" ELSE oc

\* CommandRunner.run: "ok" | "nonzero" (returned) | "raise"
CommandRunner_run(sudo, check, oc) ==
    IF rev = "install" /\ sudo /\ ~sudoAvail
    THEN "raise"
    ELSE CASE Spawn(sudo, oc) = "notfound" -> "raise"
           [] Spawn(sudo, oc) = "fail" -> IF check THEN "raise" ELSE "nonzero"
           [] OTHER -> "ok"

\* CommandRunner.run_with_output / run_with_inline_output
run_with_output(sudo, oc) ==
    IF rev = "nym_installer"
    THEN CASE Spawn(sudo, oc) = "notfound" -> "raise"
           [] Spawn(sudo, oc) = "fail" -> "nonzero"
           [] OTHER -> "ok"
    ELSE CASE Spawn(sudo, oc) = "notfound" -> "nonzero"
           [] Spawn(sudo, oc) = "fail" -> "raise"
           [] OTHER -> "ok"

\* ------------------------------------------------------------ SystemManager
\* update_system: "true" | "false" | "raise"
update_system(o1, o2) ==
    LET r1 == run_with_output(TRUE, o1)
        r2 == run_with_output(TRUE, o2)
        r  == IF r1 # "ok" THEN r1 ELSE r2
    IN  CASE r = "ok" -> "true"
          [] r = "nonzero" -> "false"
          [] OTHER -> IF rev = "install" THEN "false" ELSE "raise"

\* the operations update_system really executed
update_effects(o1, o2) ==
    (IF o1 # "notfound" THEN {"apt_update"} ELSE {})
    \cup (IF o1 = "ok" /\ o2 # "notfound" THEN {"apt_upgrade"} ELSE {})

\* install_packages: dq is dpkg-query's outcome, allInst says every package
\* is listed as installed, apt is apt-get install's outcome
install_packages(dq, allInst, apt) ==
    LET q == CommandRunner_run(FALSE, rev = "install", dq)
        a == run_with_output(TRUE, apt)
    IN  IF q = "raise" /\ dq = "notfound"
        THEN IF rev = "install" THEN "false" ELSE "raise"
        ELSE IF q = "ok" /\ allInst
        THEN "true"
        ELSE CASE a = "ok" -> "true"
               [] a = "nonzero" -> "false"
               [] OTHER -> IF rev = "install" THEN "false" ELSE "raise"

\* apt-get install really ran
install_effects(dq, allInst, apt) ==
    IF dq = "notfound" \/ (dq = "ok" /\ allInst) \/ apt = "notfound"
    THEN {} ELSE {"apt_install"}

\* ----------------------------------------------------------- NymNodeManager
\* check_existing_installation / check_if_node_installed
check_existing_installation == nymDirExists \/ binaryExists

\* download_binary / download_latest_binary: api is the release query
\* ("ok" | "error" | "noasset"), dl the download ("ok" | "error"), mv and ch
\* the outcomes of the elevated mv and chmod.  TRUE iff the step reports
\* success to _install.
download_binary(api, dl, mv, ch) ==
    LET m == CommandRunner_run(TRUE, FALSE, mv)
        c == CommandRunner_run(TRUE, FALSE, ch)
    IN  /\ api = "ok"
        /\ dl = "ok"
        /\ m # "raise"
        /\ (rev = "install" => m = "ok")
        /\ c # "raise"
        /\ (rev = "install" => c = "ok")

\* the mv to the target path ran and exited 0
binary_moved(api, dl, mv) ==
    api = "ok" /\ dl = "ok" /\ CommandRunner_run(TRUE, FALSE, mv) = "ok"

\* the mv or the chmod ran and exited non-zero
binary_install_failed(api, dl, mv, ch) ==
    LET m == CommandRunner_run(TRUE, FALSE, mv)
        c == CommandRunner_run(TRUE, FALSE, ch)
    IN  /\ api = "ok" /\ dl = "ok"
        /\ \/ m = "nonzero"
           \/ m = "ok" /\ c = "nonzero"

\* ----------------------------------------------------------- NetworkManager
\* configure_firewall / open_ports: which is shutil.which("ufw"); dq, allInst
\* and apt feed install_packages(["ufw"]); st is `ufw status`, inactive what
\* it printed, en `ufw --force enable`, opened the ports whose `ufw allow`
\* exited 0.  "true" | "false" | "raise"
configure_firewall(which, dq, allInst, apt, st, inactive, en, opened) ==
    LET inst == IF which THEN "true" ELSE install_packages(dq, allInst, apt)
        s    == CommandRunner_run(FALSE, rev = "install", st)
        e    == CommandRunner_run(TRUE, FALSE, en)
        p    == CommandRunner_run(TRUE, FALSE, "ok")
        body ==
            IF inst # "true" THEN inst
            ELSE IF s = "raise" THEN (IF st = "notfound" THEN "raise" ELSE "false")
            ELSE IF st = "ok" /\ inactive /\ e = "raise" THEN "raise"
            ELSE IF st = "ok" /\ inactive /\ e = "nonzero" /\ rev = "install"
            THEN "false"
            ELSE IF p = "raise" THEN "raise"
            ELSE IF opened = REQUIRED_PORTS THEN "true" ELSE "false"
    IN  IF rev = "install" /\ body = "raise" THEN "false" ELSE body

\* ------------------------------------------------------------ service unit
ServiceCmds == {"mv", "chmod", "reload", "enable", "start"}

\* the outcomes of the five commands: each exits 0 or non-zero, or the
\* first of them is not found at all
ServiceOutcomes ==
    [ServiceCmds -> {"ok", "fail"}]
    \cup { [c \in ServiceCmds |-> IF c = "mv" THEN "notfound" ELSE "ok"] }

\* create_systemd_service: who is `whoami`, tmp the write of the unit file
\* to /tmp, oc the outcome of each elevated command.  TRUE iff the step
\* reports success to _install.
create_systemd_service(who, tmp, oc) ==
    /\ (rev = "nym_installer" => who = "ok")
    /\ tmp = "ok"
    /\ \A c \in ServiceCmds : CommandRunner_run(TRUE, FALSE, oc[c]) # "raise"
    /\ (rev = "install" => CommandRunner_run(TRUE, FALSE, oc["mv"]) = "ok")

\* one of the install / enable / start commands ran and exited non-zero
service_cmd_failed(who, tmp, oc) ==
    /\ (rev = "nym_installer" => who = "ok")
    /\ tmp = "ok"
    /\ \A c \in ServiceCmds : CommandRunner_run(TRUE, FALSE, oc[c]) # "raise"
    /\ \E c \in ServiceCmds : CommandRunner_run(TRUE, FALSE, oc[c]) = "nonzero"

\* ------------------------------------------------------------ WalletManager
\* the responses of the balance query: a failure, or the account's unym
BalanceResponses == {None, 0, 100999999, 101000000}

\* check_balance: the balance, in unym (balance_nym = unym / 1_000_000)
check_balance(resp) == resp

\* balance is not None and balance >= MIN_BALANCE
Sufficient_strict(b) == b # None /\ b > MIN_BALANCE * UNYM_PER_NYM
Sufficient(b) == b # None /\ b >= MIN_BALANCE * UNYM_PER_NYM

\* ------------------------------------------------ nym_updater.py: the data
\* number of consecutive updater runs on the same host
MaxUpdaterRuns == 2

\* a version string, as the tuple of its characters
Versions ==
    { <<"1", ".", "9", ".", "0">>, <<"1", ".", "1", "0", ".", "0">>,
      <<"v", "9">>, <<"v", "1", "0">> }

\* ord(c): the code point of a character
Ord(c) ==
    CASE c = "." -> 46
      [] c = "0" -> 48
      [] c = "1" -> 49
      [] c = "9" -> 57
      [] c = "v" -> 118
      [] OTHER -> 32

RECURSIVE StrLess(_, _)
\* a < b on two str: the first differing character decides by its code
\* point, a proper prefix is the smaller
StrLess(a, b) ==
    IF a = <<>> THEN b # <<>>
    ELSE IF b = <<>> THEN FALSE
    ELSE IF Head(a) = Head(b) THEN StrLess(Tail(a), Tail(b))
    ELSE Ord(Head(a)) < Ord(Head(b))

\* new_version > current_version
StrGreater_by_length(a, b) == Len(a) > Len(b) \/ (Len(a) = Len(b) /\ StrLess(b, a))
StrGreater(a, b) == StrLess(b, a)

\* the file at a path: nothing, a complete binary of a version, or what a
\* copy of that binary left behind when it stopped half way
Absent == [exists |-> FALSE, complete |-> FALSE, version |-> <<>>]
Binary(v) == [exists |-> TRUE, complete |-> TRUE, version |-> v]
Truncated(v) == [exists |-> TRUE, complete |-> FALSE, version |-> v]

\* lines of the --version output, as tuples of tokens
NameLine == <<"Binary Name", ":", " ", "nym-node">>
VersionLine(v) == <<"Build Version", ":", " ">> \o v
IndentedLine(v) == <<" ">> \o VersionLine(v)

\* what `<binary> --version` may print for a complete binary of version v
VersionOutputs(v) ==
    { <<NameLine, VersionLine(v), NameLine>>,
      <<NameLine>>,
      <<NameLine, IndentedLine(v)>>,
      << <<"Build Version", ":", " ">> >>,
      <<>> }

\* run_command returned None
NoneOutput == << <<"None">> >>
\* get_build_version returned None
NoVersion == <<"None">>

\* run_command: stdout of a command that exited 0, None for a command that
\* exited non-zero and None for one that could not be run at all
run_command(oc, out) == IF oc = "ok" THEN out ELSE NoneOutput

\* line.startswith(prefix)
StartsWith(line, prefix) ==
    Len(line) >= Len(prefix) /\ SubSeq(line, 1, Len(prefix)) = prefix

\* line.split(":", 1)[1]
AfterColon(line) ==
    LET k == CHOOSE i \in 1..Len(line) :
                 line[i] = ":" /\ \A j \in 1..(i - 1) : line[j] # ":"
    IN  SubSeq(line, k + 1, Len(line))

\* get_build_version, from what run_command returned
get_build_version(output) ==
    IF output = NoneOutput \/ output = <<>>
    THEN NoVersion
    ELSE LET hits == { i \in 1..Len(output) :
                         StartsWith(output[i], <<"Build Version", ":">>) }
         IN  IF hits = {}
             THEN NoVersion
             ELSE Strip(AfterColon(
                      output[CHOOSE i \in hits : \A j \in hits : i <= j]))

\* `if not current_version`: None and the empty string
Falsy(v) == v = NoVersion \/ v = <<>>

\* no swap has begun on this host
NoSwap == [begun |-> FALSE, prev |-> Absent, cand |-> Absent]

\* the asset names of a release, as the tuples of their characters
NymNode == <<"n", "y", "m", "-", "n", "o", "d", "e">>
CliName == NymNode \o <<"-", "c", "l", "i">>
ApiName == <<"n", "y", "m", "-", "a", "p", "i">>
WrappedName == <<"m", "y", "-">> \o NymNode

\* the asset lists the latest release may carry
Releases ==
    { <<>>, << NymNode >>, << CliName, NymNode, ApiName >>,
      << CliName, ApiName >>, << WrappedName >> }

\* no download URL
NoUrl == <<"None">>

\* asset["name"] == "nym-node"
asset_matches_prefix(name) == StartsWith(name, NymNode)
asset_matches(name) == name = NymNode

\* get_latest_release on the assets of the release: the URL of the first
\* asset that matches (an asset's URL stands as its name), or None
get_latest_release(assets) ==
    IF \E i \in 1..Len(assets) : asset_matches(assets[i])
    THEN assets[CHOOSE i \in 1..Len(assets) :
                   /\ asset_matches(assets[i])
                   /\ \A j \in 1..(i - 1) : ~asset_matches(assets[j])]
    ELSE NoUrl

\* no release has been fetched, no prompt has been answered
NoRelease == [fetched |-> FALSE, assets |-> <<>>, url |-> NoUrl]
NotTyped == [update |-> NoAnswer, restart |-> NoAnswer]

\* the updater has not been started
UpdaterIdle ==
    /\ answered = NotTyped
    /\ release = NoRelease
    /\ upc = "NotStarted"
    /\ uExit = -1
    /\ uRun = 0
    /\ args_yes = FALSE
    /\ live = Absent
    /\ backup = Absent
    /\ new_binary = Absent
    /\ current_version = NoVersion
    /\ new_version = NoVersion
    /\ branch = "none"
    /\ response = NoAnswer
    /\ restart = NoAnswer
    /\ restarted = "none"
    /\ ulog = <<>>
    /\ utrace = <<>>
    /\ swap = NoSwap
    /\ atStart = << Absent, Absent >>

\* ------------------------------------------- the command executors: data
\* number of executor calls looked at in a row
MaxCalls == 2

\* no call is being made
NoSite == [file |-> "none", op |-> "none", sudo |-> FALSE, reason |-> FALSE,
           check |-> FALSE, line |-> 0]

\* no executor call has been made
ExecIdle ==
    /\ xsite = NoSite
    /\ xresult = "none"
    /\ xlog = <<>>
    /\ xhist = <<>>

\* ------------------------------------------------------- NodeConfig: data
\* node id prompts looked at in one run
MaxIdPrompts == 2

\* binary_dest_path of install.py, the default binary_path of nym_installer.py
BinaryDest == "/usr/local/bin/nym-node"
NoPath == ""

\* NodeConfig() as each revision constructs it
\* (install.py has no mode: its commands spell out mixnode, the value the
\* two fields keep there)
NodeConfig(r) ==
    [node_id |-> <<>>,
     binary_path |-> IF r = "nym_installer" THEN BinaryDest ELSE NoPath,
     node_mode |-> "mixnode",
     wireguard_enabled |-> FALSE]

\* what the operator types at "Select mode (1 or 2): "
ModeChoices == { <<"1">>, <<" ", "2">>, <<"3">>, <<>> }

\* select_node_mode, one round of its loop on the choice typed and the
\* answer to "Enable WireGuard? (y/N): ": the two fields of NodeConfig
\* it leaves, and whether the loop ends
select_node_mode_any_mode(cfg, choice, wg) ==
    IF Strip(choice) \in { <<"1">>, <<"2">> }
    THEN [cfg EXCEPT !.node_mode = IF Strip(choice) = <<"1">>
                                   THEN "mixnode" ELSE "exit-gateway",
                     !.wireguard_enabled = RetryAcceptedStripped(wg)]
    ELSE cfg
select_node_mode(cfg, choice, wg) ==
    CASE Strip(choice) = <<"1">> ->
           [cfg EXCEPT !.node_mode = "mixnode", !.wireguard_enabled = FALSE]
      [] Strip(choice) = <<"2">> ->
           [cfg EXCEPT !.node_mode = "exit-gateway",
                       !.wireguard_enabled = RetryAcceptedStripped(wg)]
      [] OTHER -> cfg

\* the mode options of a run command: --mode, and --wireguard-enabled true
\* under `node_mode == EXIT_GATEWAY and wireguard_enabled`
ModeOptions(r, cfg) ==
    IF r = "install"
    THEN [mode |-> "mixnode", wireguard |-> FALSE]
    ELSE [mode |-> cfg.node_mode,
          wireguard |-> cfg.node_mode = "exit-gateway"
                        /\ cfg.wireguard_enabled]

\* what the operator types at the node id prompt
NodeIdInputs ==
    { <<>>, <<" ">>, <<"a", "b">>, <<" ", "a", "b", " ">>,
      <<"a", "b", "c">>, <<" ", "n", "y", "m", "1", " ">> }

\* the operator's account and the account behind the escalation wrapper
Operator == "operator"
Root == "root"
Unset == ""

\* how the installer process was started: by the operator, by the operator
\* through sudo, or by the operator in an environment without USER
Launches == {"direct", "sudo", "direct_no_USER"}

\* the environment and the effective user of a process started that way
Env(l) ==
    [SUDO_USER |-> IF l = "sudo" THEN Operator ELSE Unset,
     USER      |-> CASE l = "sudo" -> Root
                     [] l = "direct" -> Operator
                     [] OTHER -> Unset,
     effective |-> IF l = "sudo" THEN Root ELSE Operator]

\* `whoami`: the effective user of the process
whoami(l) == Env(l).effective

\* getpass.getuser(): the login variable of the environment if it is set,
\* else the password database entry of the process's user
getuser(l) == IF Env(l).USER # Unset THEN Env(l).USER ELSE Env(l).effective

\* a or b, of two str
Or(a, b) == IF a # Unset THEN a ELSE b

\* the user create_systemd_service writes into the unit
service_user(r, l) ==
    IF r = "nym_installer"
    THEN whoami(l)
    ELSE Or(Env(l).SUDO_USER, Or(Env(l).USER, getuser(l)))

NoService ==
    [User |-> Unset, ExecStart |-> NoPath, id |-> <<>>,
     options |-> [mode |-> "", wireguard |-> FALSE]]

\* no run is using a NodeConfig
ConfigIdle ==
    /\ cstep = "NotStarted"
    /\ config = NodeConfig("install")
    /\ launch = "direct"
    /\ disk = "absent"
    /\ installedAt = NoPath
    /\ idPrompts = 0
    /\ uses = <<>>
    /\ service = NoService

\* ------------------------------------------------ the balance query: data
\* balance queries looked at in one funding loop
MaxBalanceQueries == 2

DigitChars == <<"0", "1", "2", "3", "4", "5", "6", "7", "8", "9">>
DigitVal(c) == (CHOOSE i \in 1..10 : DigitChars[i] = c) - 1

\* int(s) does not raise ValueError: blanks around, decimal digits between
IsInt(s) ==
    /\ Strip(s) # <<>>
    /\ \A i \in 1..Len(Strip(s)) : \E k \in 1..10 : DigitChars[k] = Strip(s)[i]

RECURSIVE DecimalValue(_)
DecimalValue(t) ==
    IF t = <<>> THEN 0
    ELSE 10 * DecimalValue(SubSeq(t, 1, Len(t) - 1)) + DigitVal(t[Len(t)])

\* int(s), where it does not raise
py_int(s) == DecimalValue(Strip(s))

\* the amount strings a response may carry
AmountZero == <<"0">>
AmountShort == <<"1", "0", "0", "9", "9", "9", "9", "9", "9">>
AmountEnough == <<"1", "0", "1", "0", "0", "0", "0", "0", "0">>
AmountPadded == <<" ">> \o AmountEnough
AmountExponent == <<"1", "e", "9">>
AmountEmpty == <<>>
Amounts ==
    {AmountZero, AmountShort, AmountEnough, AmountPadded, AmountExponent,
     AmountEmpty}

\* one {"denom": ..., "amount": ...} object, with or without its amount key
Coin(d, a) == [denom |-> d, amount |-> a, has_amount |-> TRUE]
CoinNoAmount(d) == [denom |-> d, amount |-> <<>>, has_amount |-> FALSE]

\* what the query may come back with: no usable answer (network error,
\* timeout, invalid JSON); {"balances": [...]}; {"balance": {...}}; an
\* object with neither key
QueryFailed == [shape |-> "error", coins |-> <<>>]
ListShape(coins) == [shape |-> "list", coins |-> coins]
NestedShape(coin) == [shape |-> "nested", coins |-> << coin >>]
OtherObject == [shape |-> "object", coins |-> <<>>]

QueryResponses ==
    {QueryFailed, OtherObject, ListShape(<<>>),
     ListShape(<< Coin("uatom", AmountEnough) >>),
     ListShape(<< CoinNoAmount("unym") >>),
     NestedShape(CoinNoAmount("unym"))}
    \cup { ListShape(<< Coin("unym", a) >>) : a \in Amounts }
    \cup { ListShape(<< Coin("uatom", AmountZero), Coin("unym", a) >>) :
              a \in {AmountEnough, AmountExponent} }
    \cup { NestedShape(Coin("unym", a)) : a \in Amounts }

\* the first entry of the list whose denom is "unym", 0 if there is none
FirstUnym(coins) ==
    IF \E i \in 1..Len(coins) : coins[i].denom = "unym"
    THEN CHOOSE i \in 1..Len(coins) :
            /\ coins[i].denom = "unym"
            /\ \A j \in 1..(i - 1) : coins[j].denom # "unym"
    ELSE 0

\* int(amount) inside the try of check_balance: the value, or None for the
\* exception that `except Exception` turns into None
amount_or_None_zero(a) == IF IsInt(a) THEN py_int(a) ELSE 0
amount_or_None(a) == IF IsInt(a) THEN py_int(a) ELSE None

\* check_balance of each revision on a response: the balance in unym
\* (balance_nym = unym / 1_000_000), or None
parse_balance(r, resp) ==
    IF resp.shape = "error" THEN None
    ELSE IF r = "nym_installer"
    THEN LET coins == IF resp.shape = "list" THEN resp.coins ELSE <<>>
             i == FirstUnym(coins)
         IN  IF i = 0 THEN 0
             ELSE IF coins[i].has_amount THEN amount_or_None(coins[i].amount)
             ELSE amount_or_None(AmountZero)
    ELSE IF resp.shape = "nested" /\ resp.coins[1].has_amount
         THEN amount_or_None(resp.coins[1].amount)
         ELSE 0

\* the four displays of a balance
Classify(b) ==
    CASE b = None -> "query-failed"
      [] Sufficient(b) -> "sufficient"
      [] b > 0 -> "insufficient"
      [] OTHER -> "zero"

\* no balance query has been made
BalanceIdle ==
    /\ bstep = "NotStarted"
    /\ bhist = <<>>

\* ------------------------------------------------ signature output: data
\* lines of tool output looked at
MaxOutputLines == 3

\* n times the character c
Repeat(c, n) == [i \in 1..n |-> c]

\* the text `sub` stands in `s` at position i
Occurs(sub, s, i) ==
    i + Len(sub) - 1 <= Len(s) /\ SubSeq(s, i, i + Len(sub) - 1) = sub
Positions(sub, s) == { i \in 1..Len(s) : Occurs(sub, s, i) }
\* sub in s
Contains(sub, s) == Positions(sub, s) # {}
SetMin(S) == CHOOSE x \in S : \A y \in S : x <= y
SetMax(S) == CHOOSE x \in S : \A y \in S : x >= y
\* s.split(sub, 1)[-1] and s.split(sub)[-1], where sub is in s
AfterFirst(sub, s) == SubSeq(s, SetMin(Positions(sub, s)) + Len(sub), Len(s))
AfterLast(sub, s) == SubSeq(s, SetMax(Positions(sub, s)) + Len(sub), Len(s))

\* s.split("\n")
RECURSIVE SplitLines(_)
SplitLines(s) ==
    IF ~Contains(<<"\n">>, s) THEN << s >>
    ELSE LET i == SetMin(Positions(<<"\n">>, s))
         IN  << SubSeq(s, 1, i - 1) >> \o SplitLines(SubSeq(s, i + 1, Len(s)))

\* "\n".join(ls)
RECURSIVE JoinLines(_)
JoinLines(ls) ==
    IF ls = <<>> THEN <<>>
    ELSE IF Len(ls) = 1 THEN ls[1]
    ELSE ls[1] \o <<"\n">> \o JoinLines(Tail(ls))

\* the characters of the outputs that are neither letters nor digits
NonAlnum == {" ", "\n", ":", "+"}
\* line.replace(' ', '').isalnum()
IsAlnumLine(line) ==
    /\ \E i \in 1..Len(line) : line[i] # " "
    /\ \A i \in 1..Len(line) : line[i] = " " \/ line[i] \notin NonAlnum

IsColon == <<"i", "s", ":">>
IsColonNewline == <<"i", "s", ":", "\n">>

\* the lines a sign command may print: the marker alone, with a value on
\* the same line, longer than 40 characters; a short value; values of 41
\* and of 40 letters; 41 characters of base64 with a symbol; nothing
MarkerLine == <<"S", "i", "g", " ", "i", "s", ":">>
InlineLine == <<"K", "e", "y", " ", "i", "s", ":", " ", "a", "b", "c">>
LongMarkerLine == Repeat("C", 38) \o IsColon
ShortValue == <<"a", "b", "c">>
LongValue == Repeat("A", 41)
FortyValue == Repeat("B", 40)
SymbolValue == Repeat("A", 40) \o <<"+">>
EmptyLine == <<>>
OutputLines ==
    {MarkerLine, InlineLine, LongMarkerLine, ShortValue, LongValue,
     FortyValue, SymbolValue, EmptyLine}

\* the outputs: up to MaxOutputLines lines, with or without a final newline
SignOutputs ==
    { JoinLines(ls) \o nl :
        ls \in UNION { [1..n -> OutputLines] : n \in 0..MaxOutputLines },
        nl \in { <<>>, <<"\n">> } }

\* _extract_signature returned None
NoSignature == <<"None">>

\* output.split("is:\n")[-1].strip()
after_marker_first(output) == Strip(AfterFirst(IsColonNewline, output))
after_marker(output) == Strip(AfterLast(IsColonNewline, output))

\* _extract_signature of each revision
extract_signature(r, output) ==
    IF r = "nym_installer"
    THEN IF Contains(IsColonNewline, output)
         THEN after_marker(output)
         ELSE LET stripped == SplitLines(Strip(output))
                  last_line == Strip(stripped[Len(stripped)])
                  lines == SplitLines(output)
                  hits == { k \in 1..Len(lines) : Contains(IsColon, lines[k]) }
              IN  IF Len(last_line) > 40 THEN last_line
                  ELSE IF hits # {}
                  THEN Strip(AfterFirst(IsColon, lines[SetMin(hits)]))
                  ELSE NoSignature
    ELSE LET lines == SplitLines(Strip(output))
             hits == { k \in 1..Len(lines) :
                         /\ Contains(IsColon, lines[k])
                         /\ Strip(AfterFirst(IsColon, lines[k])) # <<>> }
             long == { k \in 1..Len(lines) :
                         /\ Len(Strip(lines[k])) > 40
                         /\ IsAlnumLine(Strip(lines[k])) }
         IN  IF hits # {}
             THEN Strip(AfterFirst(IsColon, lines[SetMin(hits)]))
             ELSE IF long # {} THEN Strip(lines[SetMax(long)])
             ELSE NoSignature

\* `if signature:`
Truthy_not_None(sig) == sig # NoSignature
Truthy(sig) == sig # NoSignature /\ sig # <<>>

\* nothing has been put before the operator
NothingShown == [kind |-> "nothing", text |-> <<>>]

\* the payloads pasted at the prompt: none, blanks around 9 characters, 10
PayloadInputs ==
    { <<>>, <<" ">>, <<" ">> \o Repeat("p", 9) \o <<" ">>,
      <<" ">> \o Repeat("p", 10) }

\* the test that ends the payload loop, on the stripped input:
\* `len(payload) >= 10` in nym_installer.py; `if payload:` and then
\* `len(payload) < 10` -> continue in install.py
payload_accepted_nonempty(r, p) == p # <<>>
payload_accepted(r, p) ==
    IF r = "install" THEN p # <<>> /\ ~(Len(p) < 10) ELSE Len(p) >= 10
NoPayload == <<>>

\* the signing step has not begun
SigIdle ==
    /\ sstep = "NotStarted"
    /\ payload = NoPayload
    /\ stdout = <<>>
    /\ signature = NoSignature
    /\ shown = NothingShown
    /\ contract_msg = <<>>

\* -------------------------------------------- bonding information: data
\* lines of one bonding-information output
MaxBondLines == 3

IdentityLabel ==
    <<"I", "d", "e", "n", "t", "i", "t", "y", " ", "K", "e", "y", ":">>
HostLabel == <<"H", "o", "s", "t", ":">>

\* lines the tool may print: the two fields (plain, indented, with a colon
\* in the value, with no value) and lines that carry neither label
KeyLine == IdentityLabel \o <<" ", "k", "1">>
IndentedKeyLine == <<" ">> \o IdentityLabel \o <<" ", "k", "2", " ">>
HostLine == HostLabel \o <<" ", "h", "1">>
HostPortLine == HostLabel \o <<" ", "h", "2", ":", "8", "0">>
BareHostLine == HostLabel
PortLine == <<"P", "o", "r", "t", ":", " ", "1">>
BondLines ==
    { KeyLine, IndentedKeyLine, HostLine, HostPortLine, BareHostLine,
      PortLine, <<>> }

\* result.stdout of the command: up to MaxBondLines lines, each ended by \n
BondOutputs ==
    { JoinLines(ls) \o (IF ls = <<>> THEN <<>> ELSE <<"\n">>) :
        ls \in UNION { [1..n -> BondLines] : n \in 0..MaxBondLines } }

\* config.public_ip, which initialize_node leaves non-empty
PublicIp == <<"9", ".", "9">>

\* a key the dict of install.py does not hold
Omitted == <<"None">>

\* line.split(":", 1)[1].strip()
field_value(line) == Strip(AfterFirst(<<":">>, line))

\* the loop over the lines: a line with "Identity Key:" in it sets the
\* identity key, elif a line with "Host:" in it sets the host
RECURSIVE scan_lines(_, _)
scan_lines_by_position(lines, info) ==
    [identity_key |-> IF Len(lines) >= 1 /\ Contains(IdentityLabel, lines[1])
                      THEN field_value(lines[1]) ELSE info.identity_key,
     host |-> IF Len(lines) >= 2 /\ Contains(HostLabel, lines[2])
              THEN field_value(lines[2]) ELSE info.host]
scan_lines(lines, info) ==
    IF lines = <<>> THEN info
    ELSE scan_lines(Tail(lines),
           IF Contains(IdentityLabel, Head(lines))
           THEN [info EXCEPT !.identity_key = field_value(Head(lines))]
           ELSE IF Contains(HostLabel, Head(lines))
           THEN [info EXCEPT !.host = field_value(Head(lines))]
           ELSE info)

\* what the query returns when the command or the parsing raised:
\* BondingInfo() in nym_installer.py, {} in install.py
failed_query(r) ==
    IF r = "nym_installer" THEN [identity_key |-> <<>>, host |-> <<>>]
    ELSE [identity_key |-> Omitted, host |-> Omitted]

\* get_bonding_info (nym_installer.py): BondingInfo(host=public_ip), then
\* the loop over stdout.split("\n").
\* get_bonding_information (install.py): {}, the loop over
\* stdout.strip().split('\n'), then `if not bonding_info.get("host")`
get_bonding_info(r, out, ip) ==
    IF r = "nym_installer"
    THEN scan_lines(SplitLines(out), [identity_key |-> <<>>, host |-> ip])
    ELSE LET found == scan_lines(SplitLines(Strip(out)), failed_query(r))
         IN  [found EXCEPT
                !.host = IF found.host \in {Omitted, <<>>} THEN ip
                         ELSE found.host]

\* nothing has been put before the operator
NotDisplayed == [identity_key |-> Omitted, host |-> Omitted]

\* no bonding-information query is under way
BondingIdle ==
    bonding = [step |-> "NotStarted", public_ip |-> <<>>, ok |-> FALSE,
               stdout |-> <<>>, info |-> NotDisplayed,
               shown |-> NotDisplayed]

\* ------------------------------------------------- get_public_ip: data
\* the services of get_public_ip, in the order of its list
services ==
    << "https://ifconfig.me/ip", "https://ipecho.net/plain",
       "https://icanhazip.com", "https://ident.me" >>

\* what a service answers: an address, an address between blanks, a body of
\* three parts, an empty body, and bodies of four parts that are no address
\* (an octet above 255, letters, nothing between the dots)
Address == <<"1", ".", "2", ".", "3", ".", "4">>
PaddedAddress == <<" ">> \o Address \o <<"\n">>
ThreeParts == <<"1", ".", "2", ".", "3">>
BigOctet == <<"2", "5", "6", ".", "1", ".", "1", ".", "1">>
Letters == <<"a", ".", "b", ".", "c", ".", "d">>
DotsOnly == <<".", ".", ".">>
IpResponses ==
    { Address, PaddedAddress, ThreeParts, <<>>, BigOctet, Letters, DotsOnly }

\* urlopen or read raised (no route, timeout, HTTP error)
Raised == <<"raised">>

\* s.split(sep) for a separator of one character
RECURSIVE split(_, _)
split(s, sep) ==
    IF ~Contains(<< sep >>, s) THEN << s >>
    ELSE LET i == SetMin(Positions(<< sep >>, s))
         IN  << SubSeq(s, 1, i - 1) >> \o split(SubSeq(s, i + 1, Len(s)), sep)

\* `ip and len(ip.split(".")) == 4` on the stripped body
ip_accepted(ip) == ip # <<>> /\ Len(split(ip, ".")) = 4

\* get_public_ip has returned None
NoIp == <<"None">>

\* no get_public_ip call is under way
IpQueryIdle ==
    ipquery = [step |-> "NotStarted", asked |-> <<>>, bodies |-> <<>>,
               result |-> NoIp]

\* --------------------------------------------- ProgressIndicator: data
\* the frames of the spinner, '|/-\\' (four characters in both revisions)
spinner == <<"|", "/", "-", "\\">>

\* thread.join(): returns once the thread has ended
join_returns_at_once(thread) == TRUE
join_returns(thread) == thread = "ended"

\* a ProgressIndicator as __init__ leaves it, before `with` enters it:
\* main is where the caller stands, thread where _animate stands, idx its
\* frame counter (modulo the frames), late whether a frame was printed
\* after the caller had left the block
NewProgress ==
    [main |-> "Enter", running |-> FALSE, thread |-> "none", idx |-> 0,
     body |-> "pending", late |-> FALSE]

\* no ProgressIndicator block is open
ProgressIdle == progress = [NewProgress EXCEPT !.main = "NotStarted"]

\* none of the three helpers is running
HelpersIdle == BondingIdle /\ IpQueryIdle /\ ProgressIdle

\* none of the step-level models has started
StepsIdle == ConfigIdle /\ BalanceIdle /\ SigIdle /\ HelpersIdle

\* ------------------------------------------------------------------- Init
Init ==
    /\ rev \in Revisions
    /\ skip_update \in BOOLEAN
    /\ sudoAvail \in BOOLEAN
    /\ run = 1
    /\ prevDownloaded = FALSE
    /\ pc = "Welcome"
    /\ exitCode = -1
    /\ exitReason = "none"
    /\ nymDirExists = FALSE
    /\ binaryExists = FALSE
    /\ pkgOps = {}
    /\ trace = <<>>
    /\ failed = {}
    /\ welcomeAnswer = NoAnswer
    /\ reinstallAnswer = NoAnswer
    /\ retryAnswer = NoAnswer
    /\ node_mode = "mixnode"
    /\ wireguard_enabled = FALSE
    /\ nQueries = 0
    /\ nPrompts = 0
    /\ slept = 0
    /\ lastBalance = None
    /\ firstSufficient = 0
    /\ wffResult = "none"
    /\ signInvoked = FALSE
    /\ UpdaterIdle
    /\ ExecIdle
    /\ StepsIdle

\* sys.exit(code), or the return of run() through main (code 0)
Exit(code, reason) ==
    /\ pc' = "Exited"
    /\ exitCode' = code
    /\ exitReason' = reason

\* the orchestrator enters a state and goes on with `next`
Goto(next) ==
    /\ pc' = next
    /\ UNCHANGED << exitCode, exitReason >>

\* _install returned False: run() logs "Installation failed", sys.exit(1)
InstallFailed == Exit(1, "failed")

\* the exit code of the cancellation at the Welcome prompt: sys.exit(0)
WelcomeCancelCode == 0

\* ------------------------------------------------------------ the actions
\* _show_welcome / _print_welcome
ShowWelcome ==
    /\ pc = "Welcome"
    /\ \E ans \in Answers :
        /\ welcomeAnswer' = ans
        /\ IF StartsWithY(ans)
           THEN Goto(IF skip_update THEN "DependencyInstall" ELSE "SystemUpdate")
           ELSE Exit(WelcomeCancelCode, "cancelled")
    /\ trace' = Append(trace, "Welcome")
    /\ UNCHANGED << outsideInstaller, hostVars, skip_update, fsVars, pkgOps, failed,
                    reinstallAnswer, cfgVars, fundVars, signInvoked >>

\* _install: "System update"
SystemUpdate ==
    /\ pc = "SystemUpdate"
    /\ \E o1 \in Outcomes, o2 \in Outcomes :
        /\ pkgOps' = pkgOps \cup update_effects(o1, o2)
        /\ IF update_system(o1, o2) = "true"
           THEN Goto("DependencyInstall") /\ failed' = failed
           ELSE InstallFailed /\ failed' = failed \cup {"SystemUpdate"}
    /\ trace' = Append(trace, "SystemUpdate")
    /\ UNCHANGED << outsideInstaller, hostVars, skip_update, fsVars, welcomeAnswer,
                    reinstallAnswer, cfgVars, fundVars, signInvoked >>

\* _install: "Dependencies"
DependencyInstall ==
    /\ pc = "DependencyInstall"
    /\ \E dq \in Outcomes, allInst \in BOOLEAN, apt \in Outcomes :
        /\ pkgOps' = pkgOps \cup install_effects(dq, allInst, apt)
        /\ IF install_packages(dq, allInst, apt) = "true"
           THEN Goto("ExistingInstallCheck") /\ failed' = failed
           ELSE InstallFailed /\ failed' = failed \cup {"DependencyInstall"}
    /\ trace' = Append(trace, "DependencyInstall")
    /\ UNCHANGED << outsideInstaller, hostVars, skip_update, fsVars, welcomeAnswer,
                    reinstallAnswer, cfgVars, fundVars, signInvoked >>

\* _install: "Check existing installation"
ExistingInstallCheck ==
    /\ pc = "ExistingInstallCheck"
    /\ IF check_existing_installation
       THEN \E ans \in Answers :
              /\ reinstallAnswer' = ans
              /\ IF StartsWithY(ans) THEN Goto("BinaryDownload")
                                     ELSE InstallFailed
       ELSE /\ reinstallAnswer' = reinstallAnswer
            /\ Goto("BinaryDownload")
    /\ trace' = Append(trace, "ExistingInstallCheck")
    /\ UNCHANGED << outsideInstaller, hostVars, skip_update, fsVars, pkgOps, failed,
                    welcomeAnswer, cfgVars, fundVars, signInvoked >>

\* _install: "Binary download"
BinaryDownload ==
    /\ pc = "BinaryDownload"
    /\ \E api \in {"ok", "error", "noasset"}, dl \in {"ok", "error"},
          mv \in Outcomes, ch \in Outcomes :
        /\ pkgOps' = pkgOps
        /\ binaryExists' = (binaryExists \/ binary_moved(api, dl, mv))
        /\ failed' = failed
              \cup (IF download_binary(api, dl, mv, ch) THEN {} ELSE {"BinaryDownload"})
              \cup (IF binary_install_failed(api, dl, mv, ch)
                    THEN {"BinaryInstall"} ELSE {})
        /\ IF download_binary(api, dl, mv, ch)
           THEN Goto(IF rev = "nym_installer" THEN "ModeSelection"
                                             ELSE "FirewallConfig")
           ELSE InstallFailed
    /\ trace' = Append(trace, "BinaryDownload")
    /\ UNCHANGED << outsideInstaller, hostVars, skip_update, nymDirExists, welcomeAnswer,
                    reinstallAnswer, cfgVars, fundVars, signInvoked >>

\* ModeSelection going straight on to node initialization
ModeSelection_then_init ==
    /\ pc = "ModeSelection"
    /\ \E choice \in {"1", "2"}, wg \in RetryAnswers :
        /\ node_mode' = IF choice = "1" THEN "mixnode" ELSE "exit-gateway"
        /\ wireguard_enabled' = (choice = "2" /\ RetryAcceptedStripped(wg))
    /\ Goto("NodeInit")
    /\ trace' = Append(trace, "ModeSelection")
    /\ UNCHANGED << outsideInstaller, hostVars, skip_update, fsVars, pkgOps, failed,
                    welcomeAnswer, reinstallAnswer, fundVars, signInvoked >>

\* select_node_mode (nym_installer.py only)
ModeSelection ==
    /\ pc = "ModeSelection"
    /\ \E choice \in {"1", "2"}, wg \in RetryAnswers :
        /\ node_mode' = IF choice = "1" THEN "mixnode" ELSE "exit-gateway"
        /\ wireguard_enabled' = (choice = "2" /\ RetryAcceptedStripped(wg))
    /\ Goto("FirewallConfig")
    /\ trace' = Append(trace, "ModeSelection")
    /\ UNCHANGED << outsideInstaller, hostVars, skip_update, fsVars, pkgOps, failed,
                    welcomeAnswer, reinstallAnswer, fundVars, signInvoked >>

\* _install: "Firewall"
FirewallConfig ==
    /\ pc = "FirewallConfig"
    /\ \E which \in BOOLEAN, dq \in Outcomes, allInst \in BOOLEAN,
          apt \in Outcomes, st \in Outcomes, inactive \in BOOLEAN,
          en \in {"ok", "fail"},
          opened \in {REQUIRED_PORTS, REQUIRED_PORTS \ {9000}, {}} :
        \* ufw found on the PATH is found again by the spawn; ufw not found
        \* stays not found unless apt-get install has just installed it
        /\ which => st # "notfound" /\ dq = "ok" /\ allInst /\ apt = "ok"
        /\ (~which /\ install_effects(dq, allInst, apt) = {}) => st = "notfound"
        /\ (~which /\ apt # "ok") => st = "notfound"
        /\ pkgOps' = pkgOps
              \cup (IF which THEN {} ELSE install_effects(dq, allInst, apt))
        /\ LET r == configure_firewall(which, dq, allInst, apt, st, inactive,
                                       en, opened)
           IN  /\ failed' = failed
                     \cup (IF r = "true" THEN {} ELSE {"FirewallConfig"})
               /\ IF r = "raise" THEN InstallFailed ELSE Goto("NodeInit")
    /\ trace' = Append(trace, "FirewallConfig")
    /\ UNCHANGED << outsideInstaller, hostVars, skip_update, fsVars, welcomeAnswer,
                    reinstallAnswer, cfgVars, fundVars, signInvoked >>

\* initialize_node: ip is how the public address was obtained, init the
\* outcome of `nym-node run --init-only`
NodeInit ==
    /\ pc = "NodeInit"
    /\ \E ip \in {"detected", "manual", "none"}, init \in Outcomes :
        /\ ~binaryExists => init = "notfound"
        /\ pkgOps' = pkgOps
        /\ IF ip # "none" /\ init = "ok"
           THEN /\ Goto("DescriptionWrite")
                /\ failed' = failed
                /\ nymDirExists' = TRUE
           ELSE /\ InstallFailed
                /\ failed' = failed \cup {"NodeInit"}
                /\ nymDirExists' \in
                      IF ip # "none" /\ init = "fail"
                      THEN {nymDirExists, TRUE} ELSE {nymDirExists}
    /\ trace' = Append(trace, "NodeInit")
    /\ UNCHANGED << outsideInstaller, hostVars, skip_update, binaryExists, welcomeAnswer,
                    reinstallAnswer, cfgVars, fundVars, signInvoked >>

\* create_description / create_description_toml: mk is the mkdir of the data
\* directory (outside the try), wr the write of description.toml
DescriptionWrite ==
    /\ pc = "DescriptionWrite"
    /\ \E mk \in {"ok", "raise"}, wr \in {"ok", "fail"} :
        /\ pkgOps' = pkgOps
        /\ failed' = failed
              \cup (IF mk = "ok" /\ wr = "ok" THEN {} ELSE {"DescriptionWrite"})
        /\ IF mk = "raise" THEN InstallFailed ELSE Goto("ServiceInstall")
    /\ trace' = Append(trace, "DescriptionWrite")
    /\ UNCHANGED << outsideInstaller, hostVars, skip_update, fsVars, welcomeAnswer,
                    reinstallAnswer, cfgVars, fundVars, signInvoked >>

\* _install: "Service setup"
ServiceInstall ==
    /\ pc = "ServiceInstall"
    /\ \E who \in Outcomes, tmp \in {"ok", "raise"},
          oc \in ServiceOutcomes :
        /\ pkgOps' = pkgOps
        /\ failed' = failed
              \cup (IF create_systemd_service(who, tmp, oc) /\
                       ~service_cmd_failed(who, tmp, oc)
                    THEN {} ELSE {"ServiceInstall"})
        /\ IF create_systemd_service(who, tmp, oc)
           THEN Goto("MnemonicDisplay")
           ELSE InstallFailed
    /\ trace' = Append(trace, "ServiceInstall")
    /\ UNCHANGED << outsideInstaller, hostVars, skip_update, fsVars, welcomeAnswer,
                    reinstallAnswer, cfgVars, fundVars, signInvoked >>

\* _show_mnemonic: m is what load_mnemonic found
MnemonicDisplay ==
    /\ pc = "MnemonicDisplay"
    /\ \E m \in {"ok", "missing", "unreadable"} :
        failed' = failed \cup (IF m = "ok" THEN {} ELSE {"MnemonicDisplay"})
    /\ Goto("WalletFunding")
    /\ trace' = Append(trace, "MnemonicDisplay")
    /\ UNCHANGED << outsideInstaller, hostVars, skip_update, fsVars, pkgOps, welcomeAnswer,
                    reinstallAnswer, cfgVars, fundVars, signInvoked >>

\* _setup_wallet / _guide_wallet_setup up to the funding loop: the address
SetupWallet ==
    /\ pc = "WalletFunding"
    /\ Goto("FundingQuery")
    /\ trace' = Append(trace, "WalletFunding")
    /\ UNCHANGED << outsideInstaller, hostVars, skip_update, fsVars, pkgOps, failed,
                    welcomeAnswer, reinstallAnswer, cfgVars, fundVars,
                    signInvoked >>

\* one balance query of the funding loop and the test that follows it
FundingQuery ==
    /\ pc = "FundingQuery"
    /\ \E resp \in BalanceResponses :
        LET b == check_balance(resp) IN
        /\ nQueries' = nQueries + 1
        /\ lastBalance' = b
        /\ firstSufficient' =
              IF firstSufficient = 0 /\ b # None /\ b >= 101000000
              THEN nQueries + 1 ELSE firstSufficient
        /\ IF rev = "nym_installer"
           THEN IF Sufficient(b)
                THEN /\ wffResult' = "true"
                     /\ Goto("ContractSigning")
                     /\ failed' = failed
                ELSE /\ wffResult' = wffResult
                     /\ Goto("FundingPrompt")
                     /\ failed' = failed
           ELSE \* install.py: check_balance returns a float, the loop then
                \* calls .get on it unless it is None or 0.0
                IF b = None \/ b = 0
                THEN /\ wffResult' = wffResult
                     /\ Goto("FundingPrompt")
                     /\ failed' = failed
                ELSE /\ wffResult' = wffResult
                     /\ Exit(1, "failed")
                     /\ failed' = failed \cup {"WalletFunding"}
    /\ UNCHANGED << outsideInstaller, hostVars, skip_update, fsVars, pkgOps, trace,
                    welcomeAnswer, reinstallAnswer, retryAnswer, cfgVars,
                    nPrompts, slept, signInvoked >>

\* FundingPrompt whose caller ignores the result of wait_for_funding
FundingPrompt_result_ignored ==
    /\ pc = "FundingPrompt"
    /\ \E ans \in RetryAnswers :
        /\ RetryAccepted(ans) => nQueries < MaxPolls
        /\ retryAnswer' = ans
        /\ nPrompts' = nPrompts + 1
        /\ IF RetryAccepted(ans)
           THEN /\ Goto("FundingWait")
                /\ UNCHANGED << wffResult, failed >>
           ELSE /\ wffResult' = "false"
                /\ failed' = failed \cup {"WalletFunding"}
                /\ Goto("ContractSigning")
    /\ UNCHANGED << outsideInstaller, hostVars, skip_update, fsVars, pkgOps, trace,
                    welcomeAnswer, reinstallAnswer, cfgVars, nQueries, slept,
                    lastBalance, firstSufficient, signInvoked >>

\* "Check again? (y/N)" and what follows a negative answer
FundingPrompt ==
    /\ pc = "FundingPrompt"
    /\ \E ans \in RetryAnswers :
        LET again == IF rev = "nym_installer" THEN RetryAccepted(ans)
                     ELSE RetryAcceptedStripped(ans) IN
        /\ again => nQueries < MaxPolls
        /\ retryAnswer' = ans
        /\ nPrompts' = nPrompts + 1
        /\ IF again
           THEN /\ Goto(IF rev = "nym_installer" THEN "FundingWait"
                                                 ELSE "FundingQuery")
                /\ UNCHANGED << wffResult, failed >>
           ELSE /\ wffResult' = IF rev = "nym_installer" THEN "false"
                                                          ELSE wffResult
                /\ failed' = failed \cup {"WalletFunding"}
                /\ Exit(1, "nofunds")
    /\ UNCHANGED << outsideInstaller, hostVars, skip_update, fsVars, pkgOps, trace,
                    welcomeAnswer, reinstallAnswer, cfgVars, nQueries, slept,
                    lastBalance, firstSufficient, signInvoked >>

\* FundingWait that goes back to the query without sleeping
FundingWait_no_sleep ==
    /\ pc = "FundingWait"
    /\ slept' = slept
    /\ Goto("FundingQuery")
    /\ UNCHANGED << outsideInstaller, hostVars, skip_update, fsVars, pkgOps, trace, failed,
                    welcomeAnswer, reinstallAnswer, retryAnswer, cfgVars,
                    nQueries, nPrompts, lastBalance, firstSufficient,
                    wffResult, signInvoked >>

\* time.sleep(10) of wait_for_funding
FundingWait ==
    /\ pc = "FundingWait"
    /\ slept' = slept + WAIT_SECONDS
    /\ Goto("FundingQuery")
    /\ UNCHANGED << outsideInstaller, hostVars, skip_update, fsVars, pkgOps, trace, failed,
                    welcomeAnswer, reinstallAnswer, retryAnswer, cfgVars,
                    nQueries, nPrompts, lastBalance, firstSufficient,
                    wffResult, signInvoked >>

\* sign_contract / sign_contract_message: bond is what get_bonding_info
\* returned, sign the outcome of the sign subcommand, sig the extraction
ContractSigning ==
    /\ pc = "ContractSigning"
    /\ \E bond \in {"ok", "nokey", "error"}, sign \in {"ok", "fail"},
          sig \in {"found", "none"} :
        /\ signInvoked' = (bond = "ok")
        /\ failed' = failed
              \cup (IF bond = "ok" /\ sign = "ok" /\ sig = "found"
                    THEN {} ELSE {"ContractSigning"})
    /\ Goto("Complete")
    /\ trace' = Append(trace, "ContractSigning")
    /\ UNCHANGED << outsideInstaller, hostVars, skip_update, fsVars, pkgOps, welcomeAnswer,
                    reinstallAnswer, cfgVars, fundVars >>

\* _show_completion, then run() returns and the process ends with code 0
ShowCompletion ==
    /\ pc = "Complete"
    /\ Exit(0, "complete")
    /\ trace' = Append(trace, "Complete")
    /\ UNCHANGED << outsideInstaller, hostVars, skip_update, fsVars, pkgOps, failed,
                    welcomeAnswer, reinstallAnswer, cfgVars, fundVars,
                    signInvoked >>

\* download_binary returned True (a path, in install.py) in this run: the
\* orchestrator went on to the step after BinaryDownload
DownloadSucceeded ==
    \E i \in 1..Len(trace) :
        /\ trace[i] = "BinaryDownload"
        /\ i < Len(trace) \/ pc \notin {"Exited"}

\* main(): the operator starts the installer again on the same host
NewRun ==
    /\ pc = "Exited"
    /\ run < MaxRuns
    /\ run' = run + 1
    /\ prevDownloaded' = (prevDownloaded \/ DownloadSucceeded)
    /\ skip_update' \in BOOLEAN
    /\ pc' = "Welcome"
    /\ exitCode' = -1
    /\ exitReason' = "none"
    /\ pkgOps' = {}
    /\ trace' = <<>>
    /\ failed' = {}
    /\ welcomeAnswer' = NoAnswer
    /\ reinstallAnswer' = NoAnswer
    /\ retryAnswer' = NoAnswer
    /\ node_mode' = "mixnode"
    /\ wireguard_enabled' = FALSE
    /\ nQueries' = 0
    /\ nPrompts' = 0
    /\ slept' = 0
    /\ lastBalance' = None
    /\ firstSufficient' = 0
    /\ wffResult' = "none"
    /\ signInvoked' = FALSE
    /\ UNCHANGED << outsideInstaller, rev, sudoAvail, fsVars >>

Next ==
    \/ ShowWelcome
    \/ SystemUpdate
    \/ DependencyInstall
    \/ ExistingInstallCheck
    \/ BinaryDownload
    \/ ModeSelection
    \/ FirewallConfig
    \/ NodeInit
    \/ DescriptionWrite
    \/ ServiceInstall
    \/ MnemonicDisplay
    \/ SetupWallet
    \/ FundingQuery
    \/ FundingPrompt
    \/ FundingWait
    \/ ContractSigning
    \/ ShowCompletion
    \/ NewRun

Spec == Init /\ [][Next]_vars

\* ===================================================== nym_updater.py: main
\* what no step of the updater touches
outsideUpdater == << installerVars, rev, sudoAvail, execVars, stepVars >>

uHost == << uRun, args_yes >>
uSeen == << answered, release >>
uFiles == << live, backup, new_binary >>
uVersions == << current_version, new_version, branch >>
uAnswers == << response, restart, restarted >>

\* the installer has run to its end on this host
InstallerDone ==
    /\ skip_update = FALSE
    /\ run = 1
    /\ prevDownloaded = FALSE
    /\ pc = "Exited"
    /\ exitCode = 0
    /\ exitReason = "complete"
    /\ nymDirExists = TRUE
    /\ binaryExists = TRUE
    /\ pkgOps = {}
    /\ trace = <<>>
    /\ failed = {}
    /\ welcomeAnswer = NoAnswer
    /\ reinstallAnswer = NoAnswer
    /\ retryAnswer = NoAnswer
    /\ node_mode = "mixnode"
    /\ wireguard_enabled = FALSE
    /\ nQueries = 0
    /\ nPrompts = 0
    /\ slept = 0
    /\ lastBalance = None
    /\ firstSufficient = 0
    /\ wffResult = "none"
    /\ signInvoked = FALSE

\* ... of the revision the updater was published with
InstallerIdle == rev = "nym_installer" /\ InstallerDone

\* the answers typed at the two prompts of the updater
UpdaterAnswers == { <<>>, <<"n">>, <<" ", "Y">>, <<"y", "e", "s">> }

\* how a cp may end: exit 0; non-zero with the destination untouched;
\* non-zero with the destination cut short; killed half way by the
\* operator's interrupt, which also ends the updater
CopyOutcomes == {"ok", "fail_clean", "fail_partial", "interrupted"}

\* what a copy of `src` leaves at a destination that held `dst`
CopyResult(src, dst, oc) ==
    CASE oc = "ok" -> src
      [] oc = "fail_clean" -> dst
      [] OTHER -> Truncated(src.version)

\* the updater starts on a host whose live path holds a binary, or nothing
UpdaterInit ==
    /\ InstallerIdle
    /\ ExecIdle
    /\ StepsIdle
    /\ answered = NotTyped
    /\ release = NoRelease
    /\ sudoAvail \in BOOLEAN
    /\ upc = "LocateInstalled"
    /\ uExit = -1
    /\ uRun = 1
    /\ args_yes \in BOOLEAN
    /\ live \in {Absent} \cup { Binary(v) : v \in Versions }
    /\ backup = Absent
    /\ new_binary = Absent
    /\ current_version = NoVersion
    /\ new_version = NoVersion
    /\ branch = "none"
    /\ response = NoAnswer
    /\ restart = NoAnswer
    /\ restarted = "none"
    /\ ulog = <<>>
    /\ utrace = <<>>
    /\ swap = NoSwap
    /\ atStart = << live, backup >>

\* sys.exit(code), or main() returning (code 0)
UExit(code) ==
    /\ upc' = "Exited"
    /\ uExit' = code

\* main() goes on with the next stage
UGoto(next) ==
    /\ upc' = next
    /\ uExit' = uExit

\* find_current_binary and the test of its result
LocateInstalled ==
    /\ upc = "LocateInstalled"
    /\ utrace' = Append(utrace, "LocateInstalled")
    /\ IF live.exists THEN UGoto("ReadInstalledVersion") ELSE UExit(1)
    /\ UNCHANGED << outsideUpdater, uHost, uSeen, uFiles, uVersions, uAnswers,
                    ulog, swap, atStart >>

\* get_build_version(current_binary) and the test of its result
ReadInstalledVersion ==
    /\ upc = "ReadInstalledVersion"
    /\ utrace' = Append(utrace, "ReadInstalledVersion")
    /\ \E oc \in Outcomes, out \in VersionOutputs(live.version) :
        /\ live.complete \/ oc # "ok"
        /\ current_version' = get_build_version(run_command(oc, out))
        /\ IF Falsy(current_version')
           THEN UExit(1)
           ELSE UGoto("FetchLatestRelease")
    /\ UNCHANGED << outsideUpdater, uHost, uSeen, uFiles, new_version, branch,
                    uAnswers, ulog, swap, atStart >>

\* get_latest_release and the test of its result
FetchLatestRelease ==
    /\ upc = "FetchLatestRelease"
    /\ utrace' = Append(utrace, "FetchLatestRelease")
    /\ \E r \in {"ok", "error"}, assets \in Releases :
        IF r = "ok"
        THEN /\ release' = [fetched |-> TRUE, assets |-> assets,
                            url |-> get_latest_release(assets)]
             /\ IF get_latest_release(assets) # NoUrl
                THEN UGoto("DownloadCandidate") ELSE UExit(1)
        ELSE /\ release' = release
             /\ UExit(1)
    /\ UNCHANGED << outsideUpdater, uHost, answered, uFiles, uVersions, uAnswers,
                    ulog, swap, atStart >>

\* rmtree of /tmp/nym-update, download_binary and the test of its result
DownloadCandidate ==
    /\ upc = "DownloadCandidate"
    /\ utrace' = Append(utrace, "DownloadCandidate")
    /\ \E d \in {"ok", "error", "cut"}, v \in Versions :
        CASE d = "ok" -> new_binary' = Binary(v)
                         /\ UGoto("ReadCandidateVersion")
          [] d = "cut" -> new_binary' = Truncated(v) /\ UExit(1)
          [] OTHER -> new_binary' = Absent /\ UExit(1)
    /\ UNCHANGED << outsideUpdater, uHost, uSeen, live, backup, uVersions, uAnswers,
                    ulog, swap, atStart >>

\* get_build_version(new_binary) and the test of its result
ReadCandidateVersion_unchecked ==
    /\ upc = "ReadCandidateVersion"
    /\ utrace' = Append(utrace, "ReadCandidateVersion")
    /\ \E oc \in Outcomes, out \in VersionOutputs(new_binary.version) :
        /\ new_version' = get_build_version(run_command(oc, out))
        /\ UGoto("Compare")
    /\ UNCHANGED << outsideUpdater, uHost, uSeen, uFiles, current_version, branch,
                    uAnswers, ulog, swap, atStart >>
ReadCandidateVersion ==
    /\ upc = "ReadCandidateVersion"
    /\ utrace' = Append(utrace, "ReadCandidateVersion")
    /\ \E oc \in Outcomes, out \in VersionOutputs(new_binary.version) :
        /\ new_version' = get_build_version(run_command(oc, out))
        /\ IF Falsy(new_version') THEN UExit(1) ELSE UGoto("Compare")
    /\ UNCHANGED << outsideUpdater, uHost, uSeen, uFiles, current_version, branch,
                    uAnswers, ulog, swap, atStart >>

\* if new_version > current_version ... elif == ... else
Compare ==
    /\ upc = "Compare"
    /\ utrace' = Append(utrace, "Compare")
    /\ branch' = IF StrGreater(new_version, current_version) THEN "Newer"
                 ELSE IF new_version = current_version THEN "UpToDate"
                 ELSE "Older"
    /\ IF branch' = "Newer" THEN UGoto("ConfirmAndSwap") ELSE UExit(0)
    /\ UNCHANGED << outsideUpdater, uHost, uSeen, uFiles, current_version,
                    new_version, uAnswers, ulog, swap, atStart >>

\* the confirmation: -y, or the answer to "Do you want to update? [y/N]"
Confirm_any_answer ==
    /\ upc = "ConfirmAndSwap"
    /\ utrace' = Append(utrace, "ConfirmAndSwap")
    /\ \E ans \in UpdaterAnswers :
        /\ response' = IF args_yes THEN <<"y">> ELSE Lower(Strip(ans))
        /\ answered' = IF args_yes THEN answered
                       ELSE [answered EXCEPT !.update = ans]
    /\ UGoto("Backup")
    /\ UNCHANGED << outsideUpdater, uHost, release, uFiles, uVersions, restart,
                    restarted, ulog, swap, atStart >>
Confirm ==
    /\ upc = "ConfirmAndSwap"
    /\ utrace' = Append(utrace, "ConfirmAndSwap")
    /\ \E ans \in UpdaterAnswers :
        /\ response' = IF args_yes THEN <<"y">> ELSE Lower(Strip(ans))
        /\ answered' = IF args_yes THEN answered
                       ELSE [answered EXCEPT !.update = ans]
    /\ IF response' = <<"y">> THEN UGoto("Backup") ELSE UExit(0)
    /\ UNCHANGED << outsideUpdater, uHost, release, uFiles, uVersions, restart,
                    restarted, ulog, swap, atStart >>

\* one command of this run that touched (or tried to touch) the host
Cmd(c, oc) == [cmd |-> c, oc |-> oc]

\* update_binary, first command: sudo cp current_binary backup (check=True).
\* Without sudo on the host the spawn raises FileNotFoundError, caught by
\* `except Exception`: update_binary returns False and main exits 1.
update_binary_backup_skipped ==
    /\ upc = "Backup"
    /\ utrace' = Append(utrace, "Backup")
    /\ IF ~sudoAvail
       THEN UExit(1) /\ UNCHANGED << backup, ulog >>
       ELSE /\ backup' = backup
            /\ ulog' = ulog
            /\ UGoto("Overwrite")
    /\ UNCHANGED << outsideUpdater, uHost, uSeen, live, new_binary, uVersions,
                    uAnswers, swap, atStart >>
update_binary_backup_unchecked ==
    /\ upc = "Backup"
    /\ utrace' = Append(utrace, "Backup")
    /\ IF ~sudoAvail
       THEN UExit(1) /\ UNCHANGED << backup, ulog >>
       ELSE \E oc \in CopyOutcomes :
            /\ backup' = CopyResult(live, backup, oc)
            /\ ulog' = Append(ulog, Cmd("backup", oc))
            /\ IF oc = "interrupted" THEN UExit(130) ELSE UGoto("Overwrite")
    /\ UNCHANGED << outsideUpdater, uHost, uSeen, live, new_binary, uVersions,
                    uAnswers, swap, atStart >>
update_binary_backup ==
    /\ upc = "Backup"
    /\ utrace' = Append(utrace, "Backup")
    /\ IF ~sudoAvail
       THEN UExit(1) /\ UNCHANGED << backup, ulog >>
       ELSE \E oc \in CopyOutcomes :
            /\ backup' = CopyResult(live, backup, oc)
            /\ ulog' = Append(ulog, Cmd("backup", oc))
            /\ CASE oc = "ok" -> UGoto("Overwrite")
                 [] oc = "interrupted" -> UExit(130)
                 [] OTHER -> UExit(1)
    /\ UNCHANGED << outsideUpdater, uHost, uSeen, live, new_binary, uVersions,
                    uAnswers, swap, atStart >>

\* update_binary, second command: sudo cp new_binary current_binary
update_binary_overwrite ==
    /\ upc = "Overwrite"
    /\ utrace' = Append(utrace, "Overwrite")
    /\ swap' = [begun |-> TRUE, prev |-> live, cand |-> new_binary]
    /\ \E oc \in CopyOutcomes :
        /\ live' = CopyResult(new_binary, live, oc)
        /\ ulog' = Append(ulog, Cmd("overwrite", oc))
        /\ CASE oc = "ok" -> UGoto("Chmod")
             [] oc = "interrupted" -> UExit(130)
             [] OTHER -> UExit(1)
    /\ UNCHANGED << outsideUpdater, uHost, uSeen, backup, new_binary, uVersions,
                    uAnswers, atStart >>

\* update_binary, third command: sudo chmod 755 current_binary, and the
\* test of update_binary's result in main
update_binary_chmod_unchecked ==
    /\ upc = "Chmod"
    /\ utrace' = Append(utrace, "Chmod")
    /\ \E oc \in {"ok", "fail"} :
        /\ ulog' = Append(ulog, Cmd("chmod", oc))
        /\ UGoto("Restart")
    /\ UNCHANGED << outsideUpdater, uHost, uSeen, uFiles, uVersions, uAnswers,
                    swap, atStart >>
update_binary_chmod ==
    /\ upc = "Chmod"
    /\ utrace' = Append(utrace, "Chmod")
    /\ \E oc \in {"ok", "fail"} :
        /\ ulog' = Append(ulog, Cmd("chmod", oc))
        /\ IF oc = "ok" THEN UGoto("Restart") ELSE UExit(1)
    /\ UNCHANGED << outsideUpdater, uHost, uSeen, uFiles, uVersions, uAnswers,
                    swap, atStart >>

\* the restart prompt and sudo systemctl restart nym-node.service inside
\* try / except Exception; main then returns
RestartService_reverts ==
    /\ upc = "Restart"
    /\ utrace' = Append(utrace, "Restart")
    /\ \E ans \in UpdaterAnswers, oc \in Outcomes :
        /\ restart' = IF args_yes THEN <<"y">> ELSE Lower(Strip(ans))
        /\ answered' = IF args_yes THEN answered
                       ELSE [answered EXCEPT !.restart = ans]
        /\ IF restart' = <<"y">>
           THEN /\ restarted' = IF oc = "ok" THEN "ok" ELSE "failed"
                /\ ulog' = Append(ulog, Cmd("restart", oc))
                /\ live' = IF oc = "ok" THEN live ELSE backup
           ELSE /\ restarted' = "skipped"
                /\ ulog' = ulog
                /\ live' = live
    /\ UExit(0)
    /\ UNCHANGED << outsideUpdater, uHost, release, backup, new_binary,
                    uVersions, response, swap, atStart >>
RestartService_unasked ==
    /\ upc = "Restart"
    /\ utrace' = Append(utrace, "Restart")
    /\ \E ans \in UpdaterAnswers, oc \in Outcomes :
        /\ restart' = <<"y">>
        /\ answered' = answered
        /\ IF restart' = <<"y">>
           THEN /\ restarted' = IF oc = "ok" THEN "ok" ELSE "failed"
                /\ ulog' = Append(ulog, Cmd("restart", oc))
           ELSE /\ restarted' = "skipped"
                /\ ulog' = ulog
    /\ UExit(0)
    /\ UNCHANGED << outsideUpdater, uHost, release, uFiles, uVersions,
                    response, swap, atStart >>
RestartService ==
    /\ upc = "Restart"
    /\ utrace' = Append(utrace, "Restart")
    /\ \E ans \in UpdaterAnswers, oc \in Outcomes :
        /\ restart' = IF args_yes THEN <<"y">> ELSE Lower(Strip(ans))
        /\ answered' = IF args_yes THEN answered
                       ELSE [answered EXCEPT !.restart = ans]
        /\ IF restart' = <<"y">>
           THEN /\ restarted' = IF oc = "ok" THEN "ok" ELSE "failed"
                /\ ulog' = Append(ulog, Cmd("restart", oc))
           ELSE /\ restarted' = "skipped"
                /\ ulog' = ulog
    /\ UExit(0)
    /\ UNCHANGED << outsideUpdater, uHost, release, uFiles, uVersions,
                    response, swap, atStart >>

\* the operator interrupts the updater between two commands: the
\* KeyboardInterrupt is caught nowhere and ends the process
UpdaterInterrupt ==
    /\ upc \in {"Backup", "Overwrite", "Chmod", "Restart"}
    /\ UExit(130)
    /\ UNCHANGED << outsideUpdater, uHost, uSeen, uFiles, uVersions, uAnswers,
                    ulog, utrace, swap, atStart >>

\* the operator starts the updater again on the same host
UpdaterNewRun ==
    /\ upc = "Exited"
    /\ uRun < MaxUpdaterRuns
    /\ uRun' = uRun + 1
    /\ args_yes' \in BOOLEAN
    /\ upc' = "LocateInstalled"
    /\ uExit' = -1
    /\ new_binary' = new_binary
    /\ current_version' = NoVersion
    /\ new_version' = NoVersion
    /\ branch' = "none"
    /\ response' = NoAnswer
    /\ restart' = NoAnswer
    /\ restarted' = "none"
    /\ ulog' = <<>>
    /\ utrace' = <<>>
    /\ atStart' = << live, backup >>
    /\ answered' = NotTyped
    /\ release' = NoRelease
    /\ UNCHANGED << outsideUpdater, live, backup, swap >>

UpdaterNext ==
    \/ LocateInstalled
    \/ ReadInstalledVersion
    \/ FetchLatestRelease
    \/ DownloadCandidate
    \/ ReadCandidateVersion
    \/ Compare
    \/ Confirm
    \/ update_binary_backup
    \/ update_binary_overwrite
    \/ update_binary_chmod
    \/ RestartService
    \/ UpdaterInterrupt
    \/ UpdaterNewRun

UpdaterSpec == UpdaterInit /\ [][UpdaterNext]_vars

\* ================================================= the command executors
\* the operations of CommandRunner in one revision, and the two ways the
\* updater runs a command
Operations(file) ==
    CASE file = "nym_installer" ->
             {"run", "run_silent", "run_with_progress", "run_with_output"}
      [] file = "install" ->
             {"run", "run_with_progress", "run_with_inline_output"}
      [] OTHER -> {"run_command", "sudo_subprocess_run"}

\* the line of a call in the source that passes these arguments, 0 when the
\* source holds no such call
CallSiteLine(file, op, sudo, reason, check) ==
    CASE file = "nym_installer" /\ op = "run_with_output" /\ sudo /\ reason -> 277
      [] file = "nym_installer" /\ op = "run" /\ ~sudo /\ ~reason /\ ~check -> 306
      [] file = "nym_installer" /\ op = "run" /\ ~sudo /\ ~reason /\ check -> 338
      [] file = "nym_installer" /\ op = "run" /\ sudo /\ ~reason /\ ~check -> 389
      [] file = "nym_installer" /\ op = "run_silent" /\ sudo /\ ~reason -> 454
      [] file = "install" /\ op = "run_with_inline_output" /\ sudo /\ reason -> 252
      [] file = "install" /\ op = "run" /\ ~sudo /\ ~reason /\ check -> 297
      [] file = "install" /\ op = "run" /\ sudo /\ reason /\ ~check -> 384
      [] file = "nym_updater" /\ op = "run_command" -> 38
      [] file = "nym_updater" /\ op = "sudo_subprocess_run" -> 117
      [] OTHER -> 0

\* a call: the operation and its arguments
Site(file, op, sudo, reason, check) ==
    [file |-> file, op |-> op, sudo |-> sudo, reason |-> reason,
     check |-> check, line |-> CallSiteLine(file, op, sudo, reason, check)]

\* `if sudo and shutil.which("sudo")`: "sudo" (the command is prefixed),
\* "refuse" (run of install.py raises RuntimeError), "plain" (the command
\* is run as it is)
SudoBranch(site) ==
    IF site.op = "sudo_subprocess_run" THEN "sudo"
    ELSE IF site.op = "run_command" THEN "plain"
    ELSE IF site.sudo /\ sudoAvail THEN "sudo"
    ELSE IF site.sudo /\ site.file = "install" /\ site.op = "run" THEN "refuse"
    ELSE "plain"

\* what the spawn meets: sudo itself missing, or (under sudo) sudo's
\* non-zero exit for a program it does not find
SpawnOf(site, oc) ==
    IF SudoBranch(site) = "sudo"
    THEN IF ~sudoAvail THEN "notfound"
         ELSE IF oc = "notfound" THEN "fail" ELSE oc
    ELSE oc

\* what the call prints and spawns, in order
ExecLog(site, oc) ==
    (IF SudoBranch(site) = "sudo" /\ site.reason
                                  /\ site.op # "sudo_subprocess_run"
     THEN <<"justification">> ELSE <<>>)
    \o (CASE SudoBranch(site) = "refuse" -> <<>>
          [] SpawnOf(site, oc) = "notfound" -> <<>>
          [] SudoBranch(site) = "sudo" -> <<"spawn_sudo">>
          [] OTHER -> <<"spawn_plain">>)

\* subprocess.run(..., check=check) as CommandRunner.run wraps it
RunResult(check, sp) ==
    CASE sp = "notfound" -> "FileNotFoundError"
      [] sp = "fail" -> IF check THEN "CalledProcessError" ELSE "returncode_nonzero"
      [] OTHER -> "returncode_0"

\* what the caller gets back
ExecResult(site, oc) ==
    LET sp == SpawnOf(site, oc)
    IN  CASE SudoBranch(site) = "refuse" -> "RuntimeError"
          [] site.op \in {"run", "sudo_subprocess_run"} -> RunResult(site.check, sp)
          [] site.op = "run_silent" -> RunResult(FALSE, sp)
          [] site.op = "run_command" ->
                 IF sp = "ok" THEN "stdout" ELSE "None"
          [] site.file = "nym_installer" -> RunResult(FALSE, sp)
          [] site.op = "run_with_progress" ->
                 IF sp = "ok" THEN "returncode_0" ELSE "returncode_nonzero"
          [] OTHER ->
                 CASE sp = "notfound" -> "returncode_nonzero"
                   [] sp = "fail" -> "CalledProcessError"
                   [] OTHER -> "returncode_0"

\* one call made: the site, the state of the executable, what came back
Call(site, oc) ==
    /\ xsite' = site
    /\ xresult' = ExecResult(site, oc)
    /\ xlog' = ExecLog(site, oc)
    /\ xhist' = Append(xhist, [site |-> site, oc |-> oc,
                               result |-> ExecResult(site, oc)])
    /\ UNCHANGED << installerVars, updaterVars, stepVars, rev, sudoAvail >>

\* CommandRunner.run
Call_run ==
    /\ Len(xhist) < MaxCalls
    /\ \E sudo \in BOOLEAN, reason \in BOOLEAN, check \in BOOLEAN, oc \in Outcomes :
        Call(Site(rev, "run", sudo, reason, check), oc)

\* CommandRunner.run_silent
Call_run_silent ==
    /\ Len(xhist) < MaxCalls
    /\ rev = "nym_installer"
    /\ \E sudo \in BOOLEAN, reason \in BOOLEAN, oc \in Outcomes :
        Call(Site(rev, "run_silent", sudo, reason, FALSE), oc)

\* CommandRunner.run_with_progress
Call_run_with_progress ==
    /\ Len(xhist) < MaxCalls
    /\ \E sudo \in BOOLEAN, reason \in BOOLEAN, oc \in Outcomes :
        Call(Site(rev, "run_with_progress", sudo, reason, FALSE), oc)

\* CommandRunner.run_with_output / run_with_inline_output
Call_run_with_output ==
    /\ Len(xhist) < MaxCalls
    /\ \E sudo \in BOOLEAN, reason \in BOOLEAN, oc \in Outcomes :
        Call(Site(rev, IF rev = "install" THEN "run_with_inline_output"
                       ELSE "run_with_output", sudo, reason, FALSE), oc)

\* run_command of the updater
Call_run_command ==
    /\ Len(xhist) < MaxCalls
    /\ \E oc \in Outcomes :
        Call(Site("nym_updater", "run_command", FALSE, FALSE, TRUE), oc)

\* subprocess.run(['sudo', ...], check=True) of the updater
Call_sudo_subprocess_run ==
    /\ Len(xhist) < MaxCalls
    /\ \E oc \in Outcomes :
        Call(Site("nym_updater", "sudo_subprocess_run", TRUE, FALSE, TRUE), oc)

\* the host and the revision whose executor is called
ExecInit ==
    /\ rev \in Revisions
    /\ sudoAvail \in BOOLEAN
    /\ InstallerDone
    /\ UpdaterIdle
    /\ ExecIdle
    /\ StepsIdle

ExecNext ==
    \/ Call_run
    \/ Call_run_silent
    \/ Call_run_with_progress
    \/ Call_run_with_output
    \/ Call_run_command
    \/ Call_sudo_subprocess_run

ExecSpec == ExecInit /\ [][ExecNext]_vars

\* ================================================ NodeConfig through one run
\* what no step that uses NodeConfig touches
outsideConfig == << installerVars, updaterVars, execVars, balanceVars,
                   sigVars, helperVars, rev, sudoAvail >>

\* the run is about to download the binary: a fresh host, or a host with an
\* earlier binary whose operator agreed to reinstall
ConfigInit ==
    /\ rev \in Revisions
    /\ sudoAvail \in BOOLEAN
    /\ InstallerDone
    /\ UpdaterIdle
    /\ ExecIdle
    /\ BalanceIdle
    /\ SigIdle
    /\ HelpersIdle
    /\ cstep = "BinaryDownload"
    /\ config = NodeConfig(rev)
    /\ launch \in Launches
    /\ disk \in {"absent", "previous"}
    /\ installedAt = NoPath
    /\ idPrompts = 0
    /\ uses = <<>>
    /\ service = NoService

\* an invocation of the binary, and a path built from the node id
Invocation(what) ==
    [what |-> what, path |-> config.binary_path, id |-> config.node_id]
InitInvocation ==
    [what |-> "init", path |-> config.binary_path, id |-> config.node_id,
     options |-> ModeOptions(rev, config)]
PathOf(what) == [what |-> what, path |-> NoPath, id |-> config.node_id]

\* download_binary / download_latest_binary: the mv goes to
\* config.binary_path (nym_installer.py) or binary_dest_path (install.py),
\* which install.py stores in config.binary_path on success only
NodeManager_download_binary ==
    /\ cstep = "BinaryDownload"
    /\ \E api \in {"ok", "error", "noasset"}, dl \in {"ok", "error"},
          mv \in Outcomes, ch \in Outcomes :
        LET moved == binary_moved(api, dl, mv)
            target == IF rev = "nym_installer" THEN config.binary_path
                      ELSE BinaryDest
        IN  /\ disk' = IF ~moved THEN disk
                       ELSE IF CommandRunner_run(TRUE, FALSE, ch) = "ok"
                       THEN "installed" ELSE "installed_noexec"
            /\ installedAt' = IF moved THEN target ELSE NoPath
            /\ IF download_binary(api, dl, mv, ch)
               THEN /\ cstep' = IF rev = "install" THEN "NodeId"
                                 ELSE "ModeSelection"
                    /\ config' = IF rev = "install"
                                 THEN [config EXCEPT !.binary_path = target]
                                 ELSE config
               ELSE /\ cstep' = "Failed"
                    /\ config' = config
    /\ UNCHANGED << outsideConfig, launch, idPrompts, uses, service >>

\* select_node_mode (nym_installer.py only), one round of its loop
NodeManager_select_node_mode ==
    /\ cstep = "ModeSelection"
    /\ \E choice \in ModeChoices, wg \in RetryAnswers :
        /\ config' = select_node_mode(config, choice, wg)
        /\ cstep' = IF Strip(choice) \in { <<"1">>, <<"2">> }
                    THEN "NodeId" ELSE cstep
    /\ UNCHANGED << outsideConfig, launch, disk, installedAt, idPrompts, uses,
                    service >>

\* what config.node_id holds after one round of the prompt loop
accept_node_id_min2(typed) ==
    IF Len(Strip(typed)) >= 2 THEN Strip(typed) ELSE <<>>
accept_node_id(typed) ==
    IF Len(Strip(typed)) >= 3 THEN Strip(typed) ELSE <<>>

\* initialize_node, one round of `while not self.config.node_id`
NodeManager_initialize_node_prompt ==
    /\ cstep = "NodeId"
    /\ config.node_id = <<>>
    /\ idPrompts < MaxIdPrompts
    /\ \E typed \in NodeIdInputs :
        config' = [config EXCEPT !.node_id = accept_node_id(typed)]
    /\ idPrompts' = idPrompts + 1
    /\ UNCHANGED << outsideConfig, cstep, launch, disk, installedAt, uses,
                    service >>

\* initialize_node after the loop: the public address, then the init
\* command; a binary that is missing or not executable raises out of the
\* step, which catches CalledProcessError only
NodeManager_initialize_node_init ==
    /\ cstep = "NodeId"
    /\ config.node_id # <<>>
    /\ \E ip \in BOOLEAN, oc \in {"ok", "fail"} :
        IF ~ip
        THEN /\ cstep' = "Failed"
             /\ uses' = uses
        ELSE /\ uses' = Append(uses, InitInvocation)
             /\ cstep' = IF disk \in {"previous", "installed"} /\ oc = "ok"
                         THEN "Description" ELSE "Failed"
    /\ UNCHANGED << outsideConfig, config, launch, disk, installedAt,
                    idPrompts, service >>

\* create_description / create_description_toml
NodeManager_create_description ==
    /\ cstep = "Description"
    /\ uses' = Append(uses, PathOf("description"))
    /\ cstep' = "Service"
    /\ UNCHANGED << outsideConfig, config, launch, disk, installedAt,
                    idPrompts, service >>

\* create_systemd_service: the unit is rendered, then installed and started
NodeManager_create_systemd_service ==
    /\ cstep = "Service"
    /\ \E who \in Outcomes, tmp \in {"ok", "raise"}, oc \in ServiceOutcomes :
        LET rendered == IF rev = "nym_installer" THEN who = "ok"
                        ELSE config.node_id # <<>>
        IN  /\ service' = IF rendered
                          THEN [User |-> service_user(rev, launch),
                                ExecStart |-> config.binary_path,
                                id |-> config.node_id,
                                options |-> ModeOptions(rev, config)]
                          ELSE service
            /\ cstep' = IF create_systemd_service(who, tmp, oc)
                        THEN "Mnemonic" ELSE "Failed"
    /\ UNCHANGED << outsideConfig, config, launch, disk, installedAt,
                    idPrompts, uses >>

\* load_mnemonic / get_cosmos_mnemonic
NodeManager_load_mnemonic ==
    /\ cstep = "Mnemonic"
    /\ uses' = Append(uses, PathOf("cosmos_mnemonic"))
    /\ cstep' = "Wallet"
    /\ UNCHANGED << outsideConfig, config, launch, disk, installedAt,
                    idPrompts, service >>

\* the wallet steps: they read no field of NodeConfig but the endpoint
WalletManager_funding ==
    /\ cstep = "Wallet"
    /\ \E funded \in BOOLEAN : cstep' = IF funded THEN "Bonding" ELSE "Stopped"
    /\ UNCHANGED << outsideConfig, config, launch, disk, installedAt,
                    idPrompts, uses, service >>

\* get_bonding_info / get_bonding_information, the first half of the
\* signing step: without an identity key nothing is signed
NodeManager_get_bonding_info ==
    /\ cstep = "Bonding"
    /\ uses' = Append(uses, Invocation("bonding-information"))
    /\ \E key \in BOOLEAN : cstep' = IF key THEN "Sign" ELSE "Stopped"
    /\ UNCHANGED << outsideConfig, config, launch, disk, installedAt,
                    idPrompts, service >>

\* sign_contract / sign_contract_message: the sign invocation
NodeManager_sign_contract ==
    /\ cstep = "Sign"
    /\ uses' = Append(uses, Invocation("sign"))
    /\ cstep' = "Done"
    /\ UNCHANGED << outsideConfig, config, launch, disk, installedAt,
                    idPrompts, service >>

ConfigNext ==
    \/ NodeManager_download_binary
    \/ NodeManager_select_node_mode
    \/ NodeManager_initialize_node_prompt
    \/ NodeManager_initialize_node_init
    \/ NodeManager_create_description
    \/ NodeManager_create_systemd_service
    \/ NodeManager_load_mnemonic
    \/ WalletManager_funding
    \/ NodeManager_get_bonding_info
    \/ NodeManager_sign_contract

ConfigSpec == ConfigInit /\ [][ConfigNext]_vars

\* =================================================== the funding loop, alone
outsideBalance == << installerVars, updaterVars, execVars, configVars,
                    sigVars, helperVars, rev, sudoAvail >>

\* the loop is about to make its first query
BalanceInit ==
    /\ rev \in Revisions
    /\ sudoAvail = TRUE
    /\ InstallerDone
    /\ UpdaterIdle
    /\ ExecIdle
    /\ ConfigIdle
    /\ SigIdle
    /\ HelpersIdle
    /\ bstep = "Query"
    /\ bhist = <<>>

\* one round of wait_for_funding (of `while True` in _guide_wallet_setup)
\* up to the prompt: install.py takes a non-zero balance for the response
\* object and fails on its .get
wait_for_funding_query ==
    /\ bstep = "Query"
    /\ Len(bhist) < MaxBalanceQueries
    /\ \E resp \in QueryResponses :
        LET b == parse_balance(rev, resp)
            next == IF rev = "nym_installer"
                    THEN IF Sufficient(b) THEN "Success" ELSE "Prompt"
                    ELSE IF b = None \/ b = 0 THEN "Prompt" ELSE "Crashed"
        IN  /\ bstep' = next
            /\ bhist' = Append(bhist, [resp |-> resp, result |-> b,
                                       then |-> next])
    /\ UNCHANGED outsideBalance

\* the retry prompt
wait_for_funding_prompt ==
    /\ bstep = "Prompt"
    /\ \E ans \in RetryAnswers :
        bstep' = IF (IF rev = "nym_installer" THEN RetryAccepted(ans)
                     ELSE RetryAcceptedStripped(ans))
                 THEN "Query" ELSE "GaveUp"
    /\ UNCHANGED << outsideBalance, bhist >>

BalanceNext ==
    \/ wait_for_funding_query
    \/ wait_for_funding_prompt

BalanceSpec == BalanceInit /\ [][BalanceNext]_vars

\* ==================================================== the signing step, alone
outsideSig == << installerVars, updaterVars, execVars, configVars,
                balanceVars, helperVars, rev, sudoAvail >>

\* bonding information is at hand, the payload prompt comes next
SigInit ==
    /\ rev \in Revisions
    /\ sudoAvail = TRUE
    /\ InstallerDone
    /\ UpdaterIdle
    /\ ExecIdle
    /\ ConfigIdle
    /\ BalanceIdle
    /\ HelpersIdle
    /\ sstep = "Payload"
    /\ payload = NoPayload
    /\ stdout = <<>>
    /\ signature = NoSignature
    /\ shown = NothingShown
    /\ contract_msg = <<>>

\* one round of the payload prompt
sign_contract_payload ==
    /\ sstep = "Payload"
    /\ \E typed \in PayloadInputs :
        IF payload_accepted(rev, Strip(typed))
        THEN payload' = Strip(typed) /\ sstep' = "Sign"
        ELSE payload' = payload /\ sstep' = sstep
    /\ UNCHANGED << outsideSig, stdout, signature, shown, contract_msg >>

\* the try of sign_contract / sign_contract_message: the sign command,
\* the extraction and what is shown for it
sign_contract_sign ==
    /\ sstep = "Sign"
    /\ contract_msg' = Append(contract_msg, payload)
    /\ \E oc \in {"ok", "fail"}, out \in SignOutputs :
        IF oc = "fail"
        THEN /\ sstep' = "Failed"
             /\ UNCHANGED << stdout, signature, shown >>
        ELSE /\ stdout' = out
             /\ IF rev = "install" /\ out = <<>>
                THEN /\ signature' = signature
                     /\ shown' = [kind |-> "warning", text |-> <<>>]
                     /\ sstep' = "Done"
                ELSE /\ signature' = extract_signature(rev, out)
                     /\ IF Truthy(extract_signature(rev, out))
                        THEN /\ shown' = [kind |-> "signature",
                                          text |-> extract_signature(rev, out)]
                             /\ sstep' = "Confirm"
                        ELSE /\ shown' = [kind |-> "raw", text |-> out]
                             /\ sstep' = "Done"
    /\ UNCHANGED << outsideSig, payload >>

\* "Copied signature? (yes/no)": asked until the answer is yes or y
sign_contract_confirm ==
    /\ sstep = "Confirm"
    /\ \E ans \in RetryAnswers :
        sstep' = IF RetryAccepted(ans) THEN "Done" ELSE sstep
    /\ UNCHANGED << outsideSig, payload, stdout, signature, shown,
                    contract_msg >>

SigNext ==
    \/ sign_contract_payload
    \/ sign_contract_sign
    \/ sign_contract_confirm

SigSpec == SigInit /\ [][SigNext]_vars

\* ============================================ bonding information, alone
\* the signing step is about to ask the binary for its bonding information
BondInit ==
    /\ rev \in Revisions
    /\ sudoAvail = TRUE
    /\ InstallerDone
    /\ UpdaterIdle
    /\ ExecIdle
    /\ ConfigIdle
    /\ BalanceIdle
    /\ SigIdle
    /\ IpQueryIdle
    /\ ProgressIdle
    /\ bonding = [step |-> "Query", public_ip |-> PublicIp, ok |-> FALSE,
                  stdout |-> <<>>, info |-> NotDisplayed,
                  shown |-> NotDisplayed]

\* get_bonding_info / get_bonding_information: the command (check=True,
\* timeout=30) and the parsing of its output, inside one try
NodeManager_get_bonding_info_run ==
    /\ bonding.step = "Query"
    /\ \E oc \in {"ok", "fail", "timeout"}, out \in BondOutputs :
        bonding' = IF oc = "ok"
                   THEN [bonding EXCEPT
                           !.step = "Returned", !.ok = TRUE, !.stdout = out,
                           !.info = get_bonding_info(rev, out,
                                                     bonding.public_ip)]
                   ELSE [bonding EXCEPT
                           !.step = "Returned", !.info = failed_query(rev)]
    /\ UNCHANGED << installerVars, updaterVars, execVars, configVars,
                    balanceVars, sigVars, ipquery, progress, rev, sudoAvail >>

\* sign_contract / sign_contract_message: without an identity key the step
\* returns, with one it prints the identity key and the host
NodeManager_sign_contract_display ==
    /\ bonding.step = "Returned"
    /\ bonding' = IF bonding.info.identity_key \in {Omitted, <<>>}
                  THEN [bonding EXCEPT !.step = "Stopped"]
                  ELSE [bonding EXCEPT !.step = "Displayed",
                                       !.shown = bonding.info]
    /\ UNCHANGED << installerVars, updaterVars, execVars, configVars,
                    balanceVars, sigVars, ipquery, progress, rev, sudoAvail >>

BondNext ==
    \/ NodeManager_get_bonding_info_run
    \/ NodeManager_sign_contract_display

BondSpec == BondInit /\ [][BondNext]_vars

\* ================================================== get_public_ip, alone
\* initialize_node is about to call get_public_ip
IpInit ==
    /\ rev \in Revisions
    /\ sudoAvail = TRUE
    /\ InstallerDone
    /\ UpdaterIdle
    /\ ExecIdle
    /\ ConfigIdle
    /\ BalanceIdle
    /\ SigIdle
    /\ BondingIdle
    /\ ProgressIdle
    /\ ipquery = [step |-> "Querying", asked |-> <<>>, bodies |-> <<>>,
                  result |-> NoIp]

\* one round of `for service in services`: the request, and the test of
\* the stripped body; an exception goes on to the next service
NetworkManager_get_public_ip_query ==
    /\ ipquery.step = "Querying"
    /\ Len(ipquery.asked) < Len(services)
    /\ \E body \in IpResponses \cup { Raised } :
        LET url == services[Len(ipquery.asked) + 1]
            ip == Strip(body)
            asked == [ipquery EXCEPT !.asked = Append(@, url),
                                     !.bodies = Append(@, body)]
        IN  ipquery' = IF body # Raised /\ ip_accepted(ip)
                       THEN [asked EXCEPT !.step = "Returned", !.result = ip]
                       ELSE asked
    /\ UNCHANGED << installerVars, updaterVars, execVars, configVars,
                    balanceVars, sigVars, bonding, progress, rev, sudoAvail >>

\* the loop ran out of services: "Failed to detect public IP", None
NetworkManager_get_public_ip_none ==
    /\ ipquery.step = "Querying"
    /\ Len(ipquery.asked) = Len(services)
    /\ ipquery' = [ipquery EXCEPT !.step = "Returned", !.result = NoIp]
    /\ UNCHANGED << installerVars, updaterVars, execVars, configVars,
                    balanceVars, sigVars, bonding, progress, rev, sudoAvail >>

IpNext ==
    \/ NetworkManager_get_public_ip_query
    \/ NetworkManager_get_public_ip_none

IpSpec == IpInit /\ [][IpNext]_vars

\* ============================================== ProgressIndicator, alone
\* a step is about to run a command inside `with ProgressIndicator(...)`
ProgressInit ==
    /\ rev \in Revisions
    /\ sudoAvail = TRUE
    /\ InstallerDone
    /\ UpdaterIdle
    /\ ExecIdle
    /\ ConfigIdle
    /\ BalanceIdle
    /\ SigIdle
    /\ BondingIdle
    /\ IpQueryIdle
    /\ progress = NewProgress

outsideProgress == << installerVars, updaterVars, execVars, configVars,
                     balanceVars, sigVars, bonding, ipquery, rev, sudoAvail >>

\* __enter__ -> start(): the flag is set, the thread is created and
\* started; when the thread cannot be started, start() raises and the
\* block is neither entered nor exited
ProgressIndicator_start ==
    /\ progress.main = "Enter"
    /\ \E started \in BOOLEAN :
        progress' = IF started
                    THEN [progress EXCEPT !.running = TRUE,
                                          !.thread = "test",
                                          !.main = "Body"]
                    ELSE [progress EXCEPT !.running = TRUE,
                                          !.body = "raised",
                                          !.main = "Left"]
    /\ UNCHANGED outsideProgress

\* the enclosed call returns or raises; either way `with` calls __exit__
enclosed_call ==
    /\ progress.main = "Body"
    /\ \E how \in {"returned", "raised"} :
        progress' = [progress EXCEPT !.body = how, !.main = "Stop"]
    /\ UNCHANGED outsideProgress

\* __exit__ -> stop(): self.running = False
ProgressIndicator_stop ==
    /\ progress.main = "Stop"
    /\ progress' = [progress EXCEPT !.running = FALSE, !.main = "Join"]
    /\ UNCHANGED outsideProgress

\* stop(): self.thread.join(), then the line is cleared and __exit__
\* returns None: the block is left, an exception of the call goes on
ProgressIndicator_stop_join ==
    /\ progress.main = "Join"
    /\ join_returns(progress.thread)
    /\ progress' = [progress EXCEPT !.main = "Left"]
    /\ UNCHANGED outsideProgress

\* _animate / _spin: `while self.running`
animate_test ==
    /\ progress.thread = "test"
    /\ progress' = [progress EXCEPT
                      !.thread = IF progress.running THEN "print"
                                 ELSE "ended"]
    /\ UNCHANGED outsideProgress

\* _animate / _spin: the frame spinner[idx % len(spinner)] is printed
animate_print ==
    /\ progress.thread = "print"
    /\ progress' = [progress EXCEPT
                      !.thread = "sleep",
                      !.late = @ \/ progress.main = "Left"]
    /\ UNCHANGED outsideProgress

\* _animate / _spin: time.sleep(0.1); idx += 1
animate_sleep ==
    /\ progress.thread = "sleep"
    /\ progress' = [progress EXCEPT
                      !.thread = "test",
                      !.idx = (@ + 1) % Len(spinner)]
    /\ UNCHANGED outsideProgress

\* the steps of the spinner thread
animate == animate_test \/ animate_print \/ animate_sleep

ProgressNext ==
    \/ ProgressIndicator_start
    \/ enclosed_call
    \/ ProgressIndicator_stop
    \/ ProgressIndicator_stop_join
    \/ animate_test
    \/ animate_print
    \/ animate_sleep

ProgressSpec == ProgressInit /\ [][ProgressNext]_vars

\* the same under the scheduling of the interpreter: a thread that can
\* take a step takes it (the sleep is 0.1 s, the lock is handed over), and
\* a join whose thread has ended returns; nothing is assumed of the
\* enclosed call
ProgressLiveSpec ==
    /\ ProgressSpec
    /\ WF_vars(animate)
    /\ WF_vars(ProgressIndicator_stop_join)

\* ------------------------------------------------------------- the claims
Range(q) == { q[i] : i \in 1..Len(q) }
Last(q) == q[Len(q)]
IsPrefix(p, q) == Len(p) <= Len(q) /\ \A i \in 1..Len(p) : p[i] = q[i]

\* the answers of the input set by which an operator says yes to
\* "Continue? (y/N)" and to "Reinstall? (y/N)"
AffirmativeAnswers == { <<"Y", "e", "p">> }

\* the reinstall prompt was shown and the answer was not a yes
ReinstallDeclined ==
    reinstallAnswer # NoAnswer /\ reinstallAnswer \notin AffirmativeAnswers

\* C1: when the existing-installation check finds a prior install and the
\* operator does not answer the reinstall prompt with a yes, the process
\* ends with exit code 0.
C1_DeclineExitsZero ==
    ReinstallDeclined => (pc = "Exited" /\ exitCode = 0)

\* the steps that change the node's files, firewall or service
NodeSteps == {"BinaryDownload", "ModeSelection", "FirewallConfig", "NodeInit",
              "DescriptionWrite", "ServiceInstall"}

\* C2 (as stated): a run in which the reinstall prompt is answered
\* negatively executes no package update or installation and none of the
\* node steps, before or after the prompt.
C2_DeclineTouchesNothing ==
    ReinstallDeclined => (pkgOps = {} /\ Range(trace) \cap NodeSteps = {})

\* C2 (amended): a run in which the reinstall prompt is answered negatively
\* ends at the prompt having executed none of the node steps (binary
\* download, mode selection, firewall, node init, description write, service
\* install); what it has executed are the steps that precede the prompt: the
\* system update when enabled and the dependency installation.
C2_DeclineRunsOnlyPackageSteps ==
    ReinstallDeclined =>
        /\ pc = "Exited"
        /\ Range(trace) \cap NodeSteps = {}
        /\ trace = IF skip_update
                   THEN << "Welcome", "DependencyInstall", "ExistingInstallCheck" >>
                   ELSE << "Welcome", "SystemUpdate", "DependencyInstall",
                           "ExistingInstallCheck" >>

\* a declined reinstall on a host whose packages were updated and installed
\* before the prompt
C2_Witness ==
    /\ ReinstallDeclined
    /\ run = 2
    /\ pkgOps = {"apt_update", "apt_upgrade", "apt_install"}
    /\ nymDirExists /\ binaryExists

\* the order of the states as the design fixes it
StateOrder ==
    << "Welcome", "SystemUpdate", "DependencyInstall", "ExistingInstallCheck",
       "BinaryDownload", "ModeSelection", "FirewallConfig", "NodeInit",
       "DescriptionWrite", "ServiceInstall", "MnemonicDisplay",
       "WalletFunding", "ContractSigning", "Complete" >>

\* C3: a run of nym_installer.py enters the states in the fixed order, each
\* at most once, none before its predecessor and none skipped except the
\* SystemUpdate of a run started with --no-update.
C3_FixedOrder ==
    rev = "nym_installer" =>
        IsPrefix(trace, IF skip_update
                        THEN << Head(StateOrder) >> \o Tail(Tail(StateOrder))
                        ELSE StateOrder)

\* a run that went through all fourteen states
C3_Witness ==
    /\ rev = "nym_installer"
    /\ trace = StateOrder
    /\ pc = "Exited"

\* C4: when the elevated mv or chmod of the binary, or a command that
\* installs, enables or starts the service unit, exits non-zero, the
\* installer halts in that step and the process exits non-zero.
C4_CriticalFailureHalts ==
    (failed \cap {"BinaryInstall", "ServiceInstall"} # {}) =>
        /\ pc = "Exited"
        /\ exitCode = 1
        /\ Last(trace) \in {"BinaryDownload", "ServiceInstall"}

\* C5: a run reaches Complete only if DescriptionWrite, MnemonicDisplay and
\* ContractSigning all succeeded; a failure of one of them ends the run in
\* that step with a non-zero exit.
C5_CompleteOnlyAfterSuccess ==
    (failed \cap {"DescriptionWrite", "MnemonicDisplay", "ContractSigning"} # {}) =>
        /\ "Complete" \notin Range(trace)
        /\ pc = "Exited" => exitCode # 0

\* C6: the firewall step never ends the run: whatever happens in it, the
\* installer goes on to NodeInit.
C6_FirewallNeverTerminates ==
    ~(pc = "Exited" /\ trace # <<>> /\ Last(trace) = "FirewallConfig")

\* C7: at the Welcome gate an answer that is not a yes ends the process
\* with exit code 0 before any step has run, and steps run only after a yes.
C7_WelcomeGate ==
    /\ (welcomeAnswer # NoAnswer /\ welcomeAnswer \notin AffirmativeAnswers) =>
          /\ pc = "Exited"
          /\ exitCode = 0
          /\ trace = << "Welcome" >>
          /\ pkgOps = {}
          /\ failed = {}
    /\ (Len(trace) > 1 \/ pkgOps # {}) => welcomeAnswer \in AffirmativeAnswers

\* the operator typed " y" at the Welcome prompt and the process ended
C7_Witness ==
    /\ welcomeAnswer = << " ", "y" >>
    /\ pc = "Exited"
    /\ exitCode = 0

\* C8: wait_for_funding returns True exactly when a query reports at least
\* 101,000,000 unym, at the first such query: no query, prompt or wait
\* follows it, and 100,999,999 unym is not enough.
C8_FundingResult ==
    rev = "nym_installer" =>
        /\ (wffResult = "true") = (firstSufficient # 0)
        /\ firstSufficient # 0 =>
              /\ firstSufficient = nQueries
              /\ lastBalance >= 101000000
              /\ nPrompts = nQueries - 1
              /\ slept = 10 * (nQueries - 1)
              /\ pc \in {"ContractSigning", "Complete", "Exited"}
        /\ (lastBalance = 100999999 /\ pc # "FundingQuery") => wffResult # "true"
        /\ wffResult = "false" => (lastBalance = None \/ lastBalance < 101000000)

\* wait_for_funding returned True at its first query, on exactly 101 NYM
C8_Witness ==
    /\ rev = "nym_installer"
    /\ wffResult = "true"
    /\ nQueries = 1
    /\ lastBalance = 101000000
    /\ pc = "ContractSigning"

\* the answers of the input set by which an operator says yes to
\* "Check again? (y/N)"
RetryYes == { <<"Y">> }

\* C9: an insufficient balance followed by a negative answer makes
\* wait_for_funding return failure and the installer exit non-zero; the sign
\* subcommand runs only after a balance query of the run saw at least 101 NYM.
C9_NoFundsNoSigning ==
    /\ (rev = "nym_installer" /\ retryAnswer # NoAnswer /\ retryAnswer \notin RetryYes
          /\ pc \notin {"FundingWait", "FundingQuery"}) =>
          /\ wffResult = "false"
          /\ pc = "Exited"
          /\ exitCode = 1
    /\ wffResult = "false" => (pc = "Exited" /\ exitCode = 1)
    /\ signInvoked => firstSufficient # 0
    /\ "ContractSigning" \in Range(trace) => firstSufficient # 0

\* the operator declined to check again after an insufficient balance
C9_Witness ==
    /\ rev = "nym_installer"
    /\ lastBalance = 100999999
    /\ retryAnswer = << "n" >>
    /\ wffResult = "false"
    /\ exitCode = 1

\* C10: in wait_for_funding two consecutive queries are separated by one
\* affirmative answer and one 10-second wait: n queries come with n-1 waits,
\* none before the first query and none after the last.
C10_OneWaitBetweenQueries ==
    rev = "nym_installer" =>
        /\ nQueries = 0 => (slept = 0 /\ nPrompts = 0)
        /\ nQueries > 0 =>
              CASE pc = "FundingQuery" ->
                        slept = 10 * nQueries /\ nPrompts = nQueries
                [] pc = "FundingWait" ->
                        slept = 10 * (nQueries - 1) /\ nPrompts = nQueries
                [] pc = "FundingPrompt" ->
                        slept = 10 * (nQueries - 1) /\ nPrompts = nQueries - 1
                [] OTHER ->
                        /\ slept = 10 * (nQueries - 1)
                        /\ nPrompts = IF wffResult = "true" THEN nQueries - 1
                                                           ELSE nQueries

\* insufficient, yes, one wait, sufficient: success after the second query
C10_Witness ==
    /\ rev = "nym_installer"
    /\ wffResult = "true"
    /\ nQueries = 2
    /\ nPrompts = 1
    /\ slept = 10
    /\ retryAnswer = << "Y" >>

\* ------------------------------------------------- the claims: the updater
\* positions of a command in the log of this run
Ran(c) == { i \in 1..Len(ulog) : ulog[i].cmd = c }

\* C11: in update_binary the backup copy has completed (exit 0) before the
\* overwrite of the live path begins, and the chmod follows the completed
\* overwrite; when the backup copy fails the overwrite is never started
\* and the live binary is the one the run found.
C11_BackupBeforeOverwrite ==
    /\ upc = "Overwrite" =>
          /\ ulog # <<>>
          /\ Last(ulog) = Cmd("backup", "ok")
          /\ backup = live
    /\ \A i \in Ran("overwrite") : i > 1 /\ ulog[i - 1] = Cmd("backup", "ok")
    /\ \A i \in Ran("chmod") : i > 1 /\ ulog[i - 1] = Cmd("overwrite", "ok")
    /\ (\E i \in Ran("backup") : ulog[i].oc # "ok") =>
          /\ Ran("overwrite") = {}
          /\ upc # "Overwrite"
          /\ live = atStart[1]

\* C11 witness: a run that has backed up, overwritten and restored the mode
C11_Witness ==
    /\ Ran("chmod") # {}
    /\ live = new_binary
    /\ backup = atStart[1]

\* C12: once a replacement has begun, the live path always holds a
\* complete binary, whatever fails and wherever the run is interrupted.
C12_LiveNeverPartial == swap.begun => live.exists /\ live.complete

LexLess(a, b) ==
    \E k \in 1..(Len(b)) :
        /\ k <= Len(a) + 1
        /\ \A j \in 1..(k - 1) : a[j] = b[j]
        /\ k = Len(a) + 1 \/ Ord(a[k]) < Ord(b[k])

\* this run has changed the live path, the backup path or the service
Touched ==
    \/ live # atStart[1]
    \/ backup # atStart[2]
    \/ ulog # <<>>
    \/ restarted \in {"ok", "failed"}
    \/ upc \in {"Backup", "Overwrite", "Chmod", "Restart"}

\* C14: the updater changes the live binary only when the candidate's
\* version compares greater than the installed one and the operator
\* confirmed (answer y, or -y); on equal versions, on a lower candidate and
\* on a declined confirmation the live binary, the backup path and the
\* service are untouched and the exit code is 0.
C14_SwapOnlyWhenNewerAndConfirmed ==
    /\ Touched =>
          /\ LexLess(current_version, new_version)
          /\ response = <<"y">>
    /\ ( /\ upc = "Exited"
         /\ \/ branch \in {"UpToDate", "Older"}
            \/ branch = "Newer" /\ response \notin {NoAnswer, <<"y">>} ) =>
          /\ ~Touched
          /\ uExit = 0

\* C14 witness: a newer candidate, declined by the operator
C14_Witness ==
    /\ upc = "Exited"
    /\ branch = "Newer"
    /\ response = <<"n">>
    /\ live = atStart[1]

\* the stages of the updater in their order
UpdaterOrder ==
    << "LocateInstalled", "ReadInstalledVersion", "FetchLatestRelease",
       "DownloadCandidate", "ReadCandidateVersion", "Compare",
       "ConfirmAndSwap", "Backup", "Overwrite", "Chmod", "Restart" >>

\* C15: the stages run in the order LocateInstalled, ReadInstalledVersion,
\* FetchLatestRelease, DownloadCandidate, ReadCandidateVersion, Compare;
\* Compare is reached only with both versions read from a line starting
\* with "Build Version:", and a run that ends before Compare ends with a
\* non-zero exit code having made no backup, overwrite or restart.
C15_FailBeforeCompareIsFatal ==
    /\ IsPrefix(utrace, UpdaterOrder)
    /\ "Compare" \in Range(utrace) \cup {upc} =>
          /\ current_version = atStart[1].version
          /\ new_version = new_binary.version
          /\ current_version \in Versions
          /\ new_version \in Versions
    /\ (upc = "Exited" /\ "Compare" \notin Range(utrace)) =>
          /\ uExit > 0
          /\ ~Touched

\* C15 witness: the candidate's --version output has no usable line
C15_Witness ==
    /\ upc = "Exited"
    /\ utrace # <<>>
    /\ Last(utrace) = "ReadCandidateVersion"
    /\ new_binary.complete
    /\ Falsy(new_version)

\* the class of a candidate against an installed version, by string order
LexClass(installed, candidate) ==
    IF LexLess(installed, candidate) THEN "Newer"
    ELSE IF LexLess(candidate, installed) THEN "Older"
    ELSE "UpToDate"

\* C16: Compare puts every pair of versions in exactly one of Newer,
\* UpToDate, Older by the lexicographic order of the two strings, numeric
\* components not parsed: 1.10.0 against an installed 1.9.0 is Older, v9
\* against an installed v10 is Newer.
C16_LexicographicCompare ==
    branch # "none" =>
        /\ branch = LexClass(current_version, new_version)
        /\ (branch = "UpToDate") = (current_version = new_version)
        /\ ( /\ current_version = <<"1", ".", "9", ".", "0">>
             /\ new_version = <<"1", ".", "1", "0", ".", "0">> )
              => branch = "Older"
        /\ ( /\ current_version = <<"v", "1", "0">>
             /\ new_version = <<"v", "9">> )
              => branch = "Newer"

\* C16 witness: 1.10.0 offered to a host running 1.9.0
C16_Witness ==
    /\ branch = "Older"
    /\ current_version = <<"1", ".", "9", ".", "0">>
    /\ new_version = <<"1", ".", "1", "0", ".", "0">>

\* C17: when the restart fails after a successful swap, nothing is
\* reverted (the live path holds the candidate, the backup is the previous
\* binary, no command follows the restart) and the updater ends with 0.
C17_RestartFailureKeepsSwap ==
    restarted = "failed" =>
        /\ upc = "Exited"
        /\ uExit = 0
        /\ live = swap.cand
        /\ live = new_binary
        /\ live.complete
        /\ backup = swap.prev
        /\ Last(ulog).cmd = "restart"
        /\ Ran("overwrite") # {}

\* C17 witness: the restart command exited non-zero
C17_Witness ==
    /\ restarted = "failed"
    /\ Last(ulog) = Cmd("restart", "fail")

\* C34: get_latest_release takes only the asset named exactly nym-node,
\* never one whose name starts with or contains it; a release without that
\* asset ends the run with exit code 1, nothing downloaded, nothing swapped.
HasExactAsset ==
    \E i \in 1..Len(release.assets) : release.assets[i] = NymNode

C34_ExactAssetOnly ==
    /\ (release.fetched /\ release.url # NoUrl) =>
          /\ release.url = NymNode
          /\ HasExactAsset
    /\ (release.fetched /\ ~HasExactAsset) =>
          /\ release.url = NoUrl
          /\ upc = "Exited"
          /\ uExit = 1
          /\ "DownloadCandidate" \notin Range(utrace)
          /\ ~Touched

\* C34 witness: the release carries nym-node-cli and nym-api only, and the
\* run has ended
C34_Witness ==
    /\ release.fetched
    /\ release.assets = << CliName, ApiName >>
    /\ upc = "Exited"

\* the three commands of update_binary all exited with 0 in this run
SwapSucceeded ==
    \A c \in {"backup", "overwrite", "chmod"} :
        \E i \in Ran(c) : ulog[i].oc = "ok"

\* update_binary was entered in this run
SwapEntered == "Backup" \in Range(utrace)

\* the run ended by itself, not by the operator's interrupt
EndedByItself == upc = "Exited" /\ uExit # 130

\* what C37 says with and without -y, for a given reading of "answered y"
PromptDiscipline(Yes(_)) ==
    /\ args_yes =>
          /\ answered = NotTyped
          /\ (branch = "Newer" /\ EndedByItself) => SwapEntered
          /\ (SwapSucceeded /\ EndedByItself) => Ran("restart") # {}
    /\ ~args_yes =>
          /\ SwapEntered => Yes(answered.update)
          /\ Ran("restart") # {} => Yes(answered.restart)

\* the answer is the one character y
IsExactlyY(ans) == ans = <<"y">>

\* the answer is y once blanks around it are dropped and its case is folded
IsYNormalised(ans) == ans # NoAnswer /\ Lower(Strip(ans)) = <<"y">>

\* C37 as stated: with -y no prompt is answered, a newer candidate is
\* swapped and a successful swap is followed by the restart; without -y
\* the swap and the restart each happen only after the operator answered
\* exactly y at its prompt.
C37_ExactlyYOrFlag == PromptDiscipline(IsExactlyY)

\* C37 amended: the same, where the answer that lets the swap or the
\* restart happen is one that reads y after its surrounding blanks are
\* dropped and its case is folded (" Y" confirms as well).
C37_NormalisedYOrFlag == PromptDiscipline(IsYNormalised)

\* C37 witness: without -y the operator answered " Y" at both prompts and
\* the service was restarted
C37_Witness ==
    /\ ~args_yes
    /\ answered.update = <<" ", "Y">>
    /\ answered.restart = <<" ", "Y">>
    /\ restarted = "ok"

\* C38: the restart command is run only after the three commands of
\* update_binary succeeded in the same run and the restart was confirmed;
\* not after a failed, declined or unneeded swap; and a swap that was
\* entered and did not succeed ends the run with a non-zero exit code.
C38_RestartOnlyAfterSwap ==
    /\ Ran("restart") # {} =>
          /\ SwapSucceeded
          /\ restart = <<"y">>
          /\ response = <<"y">>
          /\ branch = "Newer"
    /\ (Ran("restart") = {}) <=> (restarted \in {"none", "skipped"})
    /\ (SwapEntered /\ ~SwapSucceeded /\ upc = "Exited") =>
          /\ uExit # 0
          /\ Ran("restart") = {}

\* C38 witness: chmod failed after the overwrite and the run has ended
C38_Witness ==
    /\ upc = "Exited"
    /\ \E i \in Ran("chmod") : ulog[i].oc = "fail"
    /\ Ran("overwrite") # {}

\* ------------------------------------------ the claims: command executors
\* C18: a call that asks for elevation on a host without sudo fails with
\* an error and runs nothing without elevation, in every output mode.
C18_NoSudoIsAnError ==
    \A i \in 1..Len(xhist) :
        (xhist[i].site.sudo /\ ~sudoAvail) =>
            /\ xhist[i].result \in {"RuntimeError", "FileNotFoundError"}
            /\ "spawn_plain" \notin Range(ExecLog(xhist[i].site, xhist[i].oc))

\* C19: every command spawned under sudo by a call the source makes is
\* preceded by a printed justification of the elevation.
C19_ElevationIsJustified ==
    (xsite.line # 0 /\ "spawn_sudo" \in Range(xlog)) =>
        xlog[1] = "justification"

\* C20: for one and the same call, a missing executable comes back to the
\* caller as something else than a command that ran and exited non-zero,
\* and never as an exit code.
C20_MissingIsDistinct ==
    \A i \in 1..Len(xhist) :
        xhist[i].oc = "notfound" =>
            /\ xhist[i].result # "returncode_nonzero"
            /\ \A j \in 1..Len(xhist) :
                   (xhist[j].site = xhist[i].site /\ xhist[j].oc = "fail")
                       => xhist[j].result # xhist[i].result

\* ------------------------------------ the claims: funding and later runs
\* C24: in install.py, a balance query that observes at least 101 NYM ends
\* the funding loop at that query and the run goes on to contract signing:
\* a funded wallet never makes the run fail or poll again.
C24_FundedWalletProceeds ==
    (rev = "install" /\ firstSufficient # 0) =>
        /\ nQueries = firstSufficient
        /\ pc \in {"ContractSigning", "Complete", "Exited"}
        /\ exitCode \in {-1, 0}
        /\ "WalletFunding" \notin failed

\* C27: after a run in which BinaryDownload succeeded, every later run
\* finds the existing-installation check true and shows the reinstall
\* prompt before BinaryDownload; it downloads the binary and runs node
\* init only after an affirmative answer to that prompt.
C27_LaterRunsAskFirst ==
    prevDownloaded =>
        /\ "ExistingInstallCheck" \in Range(trace) => reinstallAnswer # NoAnswer
        /\ (pc = "BinaryDownload" \/ "BinaryDownload" \in Range(trace))
              => reinstallAnswer \in AffirmativeAnswers
        /\ "NodeInit" \in Range(trace) => reinstallAnswer \in AffirmativeAnswers

\* --------------------------------------------- the claims: NodeConfig
\* the invocations of the binary made so far
Invocations ==
    { u \in Range(uses) : u.what \in {"init", "bonding-information", "sign"} }

\* C21: the node id accepted by initialize_node has at least 3 characters,
\* init is never invoked with a shorter or empty id, the id is never
\* reassigned once accepted, and that same id is the one in the init
\* invocation, the description path, the service definition, the mnemonic
\* path and the bonding-information and sign invocations of the run.
C21_OneNodeIdThroughout ==
    /\ [](/\ config.node_id # <<>> => Len(config.node_id) >= 3
          /\ \A u \in Range(uses) : u.id = config.node_id /\ Len(u.id) >= 3
          /\ service # NoService => service.id = config.node_id)
    /\ [][config.node_id # <<>> => config'.node_id = config.node_id]_vars

\* a run that was asked twice for its id, rejected the first, and used the
\* accepted id in every invocation and path up to the sign command
C21_Witness ==
    /\ cstep = "Done"
    /\ idPrompts = 2
    /\ Len(config.node_id) >= 3
    /\ { u.what : u \in Range(uses) } =
          {"init", "description", "cosmos_mnemonic", "bonding-information",
           "sign"}
    /\ service.id = config.node_id

\* C22: whenever a service definition is generated, the binary path of its
\* ExecStart is the path to which the BinaryDownload step of the same run
\* installed the binary, and it is the path of the init, bonding-information
\* and sign invocations.
C22_ServiceRunsInstalledBinary ==
    service # NoService =>
        /\ service.ExecStart = installedAt
        /\ \A u \in Invocations : u.path = service.ExecStart

\* C23: the user written into the service definition is the invoking,
\* non-escalated operator account and never the elevated user, also when
\* the installer was launched through sudo.
C23_ServiceUserIsOperator ==
    service # NoService => service.User = Operator /\ service.User # Root

\* C39: after mode selection WireGuard is enabled only in exit-gateway mode,
\* and the init command and the service unit of one run carry the same
\* --mode and agree on --wireguard-enabled true, which is there exactly
\* when the configuration has WireGuard enabled.
InitCommands == { u \in Range(uses) : u.what = "init" }

C39_ModeAndWireGuardAgree ==
    /\ config.wireguard_enabled => config.node_mode = "exit-gateway"
    /\ \A u \in InitCommands :
          /\ u.options.mode = config.node_mode
          /\ u.options.wireguard = config.wireguard_enabled
          /\ service # NoService =>
                /\ service.options.mode = u.options.mode
                /\ service.options.wireguard = u.options.wireguard

\* C39 witness: an exit gateway with WireGuard, initialized and with its
\* service unit written
C39_Witness ==
    /\ rev = "nym_installer"
    /\ config.node_mode = "exit-gateway"
    /\ config.wireguard_enabled
    /\ service # NoService
    /\ \E u \in InitCommands : u.options.wireguard
    /\ service.options.wireguard

\* --------------------------------------------- the claims: balance query
\* the unym amount a response states, in either shape, where it states one
\* as a decimal number
StatesUnym(resp) ==
    \/ /\ resp.shape = "list"
       /\ FirstUnym(resp.coins) # 0
       /\ resp.coins[FirstUnym(resp.coins)].has_amount
       /\ IsInt(resp.coins[FirstUnym(resp.coins)].amount)
    \/ /\ resp.shape = "nested"
       /\ resp.coins[1].denom = "unym"
       /\ resp.coins[1].has_amount
       /\ IsInt(resp.coins[1].amount)
UnymOf(resp) ==
    py_int(resp.coins[IF resp.shape = "list" THEN FirstUnym(resp.coins)
                      ELSE 1].amount)

\* C25: the balance adapter tolerates both response shapes: for the same
\* unym amount, a list of denom/amount pairs and a nested balance object
\* yield the same balance and the same funding classification.
C25_BothShapesSameBalance ==
    \A i, j \in 1..Len(bhist) :
        (/\ StatesUnym(bhist[i].resp) /\ StatesUnym(bhist[j].resp)
         /\ UnymOf(bhist[i].resp) = UnymOf(bhist[j].resp))
        => /\ bhist[i].result = bhist[j].result
           /\ Classify(bhist[i].result) = Classify(bhist[j].result)

\* a well-formed list response with no unym entry at all
LacksUnym(resp) == resp.shape = "list" /\ FirstUnym(resp.coins) = 0

\* a list response whose unym entry carries an amount that is no number
MalformedAmount(resp) ==
    /\ resp.shape = "list"
    /\ FirstUnym(resp.coins) # 0
    /\ resp.coins[FirstUnym(resp.coins)].has_amount
    /\ ~IsInt(resp.coins[FirstUnym(resp.coins)].amount)

\* C26: check_balance of nym_installer.py takes a well-formed response
\* without the unym denomination for a zero balance, not a failure, and a
\* malformed amount for a failure distinct from zero, without crashing; in
\* wait_for_funding both lead to the retry prompt, never to success.
C26_MissingIsZeroMalformedIsFailure ==
    rev = "nym_installer" =>
        \A i \in 1..Len(bhist) :
            /\ LacksUnym(bhist[i].resp) =>
                  bhist[i].result = 0 /\ bhist[i].then = "Prompt"
            /\ MalformedAmount(bhist[i].resp) =>
                  /\ bhist[i].result = None
                  /\ bhist[i].result # 0
                  /\ bhist[i].then = "Prompt"

\* a loop that saw a response without unym, was asked to check again, and
\* then saw a malformed amount and stands at the prompt again
C26_Witness ==
    /\ rev = "nym_installer"
    /\ Len(bhist) = 2
    /\ LacksUnym(bhist[1].resp)
    /\ MalformedAmount(bhist[2].resp)
    /\ bstep = "Prompt"

\* --------------------------------------------- the claims: signature output
\* the sign command exited 0 and its output was looked at
Extracted == sstep \in {"Confirm", "Done"} /\ shown.kind # "warning"

EndsWith(line, sub) ==
    Len(line) >= Len(sub) /\ SubSeq(line, Len(line) - Len(sub) + 1, Len(line)) = sub
IsBlank(line) == \A i \in 1..Len(line) : line[i] \in Whitespace
\* the text of the lines after line k
TextAfter(ls, k) == JoinLines(SubSeq(ls, k + 1, Len(ls)))
\* the lines that are not blank, and the lines that contain "is:"
NonBlank(ls) == { k \in 1..Len(ls) : ~IsBlank(ls[k]) }
WithIsColon(ls) == { k \in 1..Len(ls) : Contains(IsColon, ls[k]) }

\* tiers (b) and (c), line by line: the last non-empty line if it has more
\* than 40 characters, else the suffix after "is:" of the first line that
\* contains it, else not found
LowerTiers(ls) ==
    IF NonBlank(ls) # {} /\ Len(Strip(ls[SetMax(NonBlank(ls))])) > 40
    THEN Strip(ls[SetMax(NonBlank(ls))])
    ELSE IF WithIsColon(ls) # {}
    THEN Strip(AfterFirst(IsColon, ls[SetMin(WithIsColon(ls))]))
    ELSE NoSignature

\* the procedure as stated: tier (a) applies when a line ending in "is:" is
\* followed by content
ReferenceAsStated(output) ==
    LET ls == SplitLines(output)
        marked == { k \in 1..Len(ls) :
                      EndsWith(ls[k], IsColon) /\ ~IsBlank(TextAfter(ls, k)) }
    IN  IF marked # {} THEN Strip(TextAfter(ls, SetMax(marked)))
        ELSE LowerTiers(ls)

\* tier (a) applies when "is:" ends a line that a line feed terminates,
\* whatever follows
Reference(output) ==
    LET ls == SplitLines(output)
        marked == { k \in 1..(Len(ls) - 1) : EndsWith(ls[k], IsColon) }
    IN  IF marked # {} THEN Strip(TextAfter(ls, SetMax(marked)))
        ELSE LowerTiers(ls)

\* C28: _extract_signature of nym_installer.py is the ordered three-tier
\* heuristic: (a) a line that is "is:" followed by content gives everything
\* after it; else (b) a last non-empty line of more than 40 characters
\* gives that line; else (c) the first line containing "is:" gives its
\* suffix; else not found.  Its result is that of this procedure for
\* every output.
C28_ThreeTiersAsStated ==
    (rev = "nym_installer" /\ Extracted) => signature = ReferenceAsStated(stdout)

\* C28, amended: tier (a) applies as soon as "is:" is directly followed by
\* a line feed, with or without content after it, and gives the stripped
\* text after the last such place, which may be empty; tiers (b) and (c)
\* apply only to outputs without such a place.
C28_ThreeTiers ==
    (rev = "nym_installer" /\ Extracted) => signature = Reference(stdout)

\* an output with a value on a marker's own line and a bare marker as its
\* last line: tier (a) applies and yields the empty string
C28_Witness ==
    /\ rev = "nym_installer"
    /\ sstep = "Done"
    /\ stdout = InlineLine \o <<"\n">> \o MarkerLine \o <<"\n">>
    /\ signature = <<>>

\* the output has exactly one line containing "is:", that line ends in
\* "is:", and the line right after it is S
SignatureOnNextLine(output, S) ==
    LET ls == SplitLines(output)
    IN  /\ ~IsBlank(S) /\ ~Contains(IsColon, S)
        /\ \E k \in 1..(Len(ls) - 1) :
              /\ EndsWith(ls[k], IsColon)
              /\ ls[k + 1] = S
              /\ WithIsColon(ls) = {k}

\* C29: for every output in which a line ending in "is:" is immediately
\* followed by a line holding the signature S, extraction returns exactly
\* S, whatever the length of S, in both revisions.
C29_NextLineSignature ==
    Extracted =>
        \A S \in OutputLines : SignatureOnNextLine(stdout, S) => signature = S

\* a tier of the heuristic of the revision matches the output
TierMatches(r, output) ==
    LET ls == SplitLines(output)
    IN  IF r = "nym_installer"
        THEN \/ WithIsColon(ls) # {}
             \/ NonBlank(ls) # {} /\ Len(Strip(ls[SetMax(NonBlank(ls))])) > 40
        ELSE \/ \E k \in WithIsColon(ls) : ~IsBlank(AfterFirst(IsColon, ls[k]))
             \/ \E k \in NonBlank(ls) :
                   Len(Strip(ls[k])) > 40 /\ IsAlnumLine(Strip(ls[k]))

\* C30: when extraction finds no signature (no marker and a final line of
\* at most 40 characters, or an empty extracted value), the signing step
\* reports no signature and shows the complete raw output of the sign
\* command; a value is presented as the signature only when a tier of the
\* heuristic matched.
C30_NoSignatureShowsRawOutput ==
    sstep \in {"Confirm", "Done"} =>
        /\ (~TierMatches(rev, stdout) \/ signature = <<>>
               \/ signature = NoSignature) =>
              shown.kind # "signature" /\ shown.text = stdout
        /\ shown.kind = "signature" =>
              /\ TierMatches(rev, stdout)
              /\ shown.text = signature
              /\ ~IsBlank(shown.text)

\* tier (a) matched and left nothing: the raw output is shown instead
C30_Witness ==
    /\ rev = "nym_installer"
    /\ sstep = "Done"
    /\ Contains(IsColonNewline, stdout)
    /\ signature = <<>>
    /\ shown = [kind |-> "raw", text |-> stdout]

\* C31: the sign command is never run with an empty payload or one of
\* fewer than 10 characters: the step stays at its prompt until the
\* stripped input has at least 10 characters, and the --contract-msg of
\* the command is that accepted payload.
C31_PayloadAtLeastTen ==
    /\ \A i \in 1..Len(contract_msg) :
          /\ Len(contract_msg[i]) >= 10
          /\ contract_msg[i] = payload
    /\ sstep = "Payload" => (contract_msg = <<>> /\ payload = NoPayload)
    /\ sstep # "Payload" =>
          /\ Len(payload) >= 10
          /\ \E typed \in PayloadInputs : payload = Strip(typed)

\* C31 witness: the sign command was run with the ten characters the
\* operator pasted after a blank
C31_Witness ==
    /\ contract_msg = << Repeat("p", 10) >>
    /\ sstep \in {"Confirm", "Done", "Failed"}

\* ------------------------------------- the claims: bonding information
\* the lines of the output the query read, and where its fields are
OutputLinesRead == SplitLines(bonding.stdout)
KeyFields ==
    { i \in 1..Len(OutputLinesRead) :
        Contains(IdentityLabel, OutputLinesRead[i]) }
HostFields ==
    { i \in 1..Len(OutputLinesRead) : Contains(HostLabel, OutputLinesRead[i]) }
KeyValue == field_value(OutputLinesRead[CHOOSE i \in KeyFields : TRUE])
HostValue == field_value(OutputLinesRead[CHOOSE i \in HostFields : TRUE])

\* the query ran and returned on an output with at most one field of each
\* label
ParsedPlainOutput ==
    /\ bonding.step # "Query"
    /\ bonding.ok
    /\ Cardinality(KeyFields) <= 1
    /\ Cardinality(HostFields) <= 1

IsEmptyField(v) == v \in {Omitted, <<>>}

\* C32 as stated: whatever the order of the lines and whatever other lines
\* there are, the identity key and the host returned are the values of the
\* two labelled fields, and a field whose label is absent is empty.
C32_FieldsByLabelElseEmpty ==
    ParsedPlainOutput =>
        /\ IF KeyFields # {} THEN bonding.info.identity_key = KeyValue
           ELSE IsEmptyField(bonding.info.identity_key)
        /\ IF HostFields # {} THEN bonding.info.host = HostValue
           ELSE IsEmptyField(bonding.info.host)

\* C32 amended: whatever the order of the lines and whatever other lines
\* there are, the identity key returned is the value of the Identity Key
\* field, empty when the label is absent; the host returned is the value of
\* the Host field when that value is not empty, and the configured public
\* address when the label is absent.
C32_FieldsByLabelElseFallback ==
    ParsedPlainOutput =>
        /\ IF KeyFields # {} THEN bonding.info.identity_key = KeyValue
           ELSE IsEmptyField(bonding.info.identity_key)
        /\ (HostFields # {} /\ HostValue # <<>>) =>
              bonding.info.host = HostValue
        /\ HostFields = {} => bonding.info.host = bonding.public_ip

\* C32 witness: the Host field came before an unrelated line and the
\* Identity Key field, and both values were returned
C32_Witness ==
    /\ bonding.step = "Returned"
    /\ bonding.ok
    /\ OutputLinesRead[1] = HostPortLine
    /\ OutputLinesRead[2] = PortLine
    /\ OutputLinesRead[3] = IndentedKeyLine
    /\ bonding.info = [identity_key |-> <<"k", "2">>,
                       host |-> <<"h", "2", ":", "8", "0">>]

\* C33: when the query succeeds the host returned is the host of the
\* tool's Host line if the tool printed one, else the configured public
\* address; and the host put before the operator with an identity key is
\* not empty.
C33_HostOrPublicAddress ==
    /\ ParsedPlainOutput =>
          bonding.info.host = IF HostFields # {} /\ HostValue # <<>>
                              THEN HostValue ELSE bonding.public_ip
    /\ bonding.step = "Displayed" =>
          /\ ~IsEmptyField(bonding.shown.identity_key)
          /\ ~IsEmptyField(bonding.shown.host)

\* --------------------------------------------- the claims: get_public_ip
\* a syntactically valid IPv4 address: four parts between dots, each of one
\* to three decimal digits and at most 255
IsOctet(p) ==
    /\ Len(p) \in 1..3
    /\ \A i \in 1..Len(p) : \E k \in 1..10 : DigitChars[k] = p[i]
    /\ DecimalValue(p) <= 255
IsIPv4(s) ==
    /\ Len(split(s, ".")) = 4
    /\ \A i \in 1..4 : IsOctet(split(s, ".")[i])

\* the body is the answer of a service that did not fail and is a valid
\* address once stripped
ValidAnswer(body) == body # Raised /\ IsIPv4(Strip(body))

\* C35: the services are asked in the order of the list; the call returns
\* the answer of the first service that answered a valid IPv4 address,
\* asks none after it, never returns anything that is not a valid IPv4
\* address, and returns None only after all four failed or were invalid.
C35_FirstValidAddress ==
    /\ \A i \in 1..Len(ipquery.asked) : ipquery.asked[i] = services[i]
    /\ \A i \in 1..(Len(ipquery.bodies) - 1) : ~ValidAnswer(ipquery.bodies[i])
    /\ (ipquery.step = "Returned" /\ ipquery.result # NoIp) =>
          /\ IsIPv4(ipquery.result)
          /\ ipquery.result = Strip(Last(ipquery.bodies))
    /\ (ipquery.step = "Returned" /\ ipquery.result = NoIp) =>
          /\ Len(ipquery.asked) = Len(services)
          /\ \A i \in 1..Len(ipquery.bodies) : ~ValidAnswer(ipquery.bodies[i])
    /\ (ipquery.step = "Querying" /\ ipquery.bodies # <<>>) =>
          ~ValidAnswer(Last(ipquery.bodies))

\* ----------------------------------------- the claims: ProgressIndicator
\* C36: once the block of a ProgressIndicator has been left, after a
\* return as after an exception of the enclosed call, the flag is cleared,
\* the spinner thread has ended and has printed nothing since; and a join
\* that has begun, the flag being cleared, ends with the block left.
C36_SpinnerJoinedBeforeReturn ==
    /\ [](progress.main = "Left" =>
            /\ progress.thread \in {"none", "ended"}
            /\ progress.thread = "ended" => ~progress.running
            /\ ~progress.late)
    /\ [](progress.main = "Join" => ~progress.running)
    /\ (progress.main = "Join") ~> (progress.main = "Left")

\* C36 witness: the enclosed call raised while the spinner was past its
\* first frame, and the block has been left with the thread ended
C36_Witness ==
    /\ progress.main = "Left"
    /\ progress.body = "raised"
    /\ progress.thread = "ended"
    /\ progress.idx > 0

====
